---- MODULE Spec2Model ----
(***************************************************************************)
(* A model of the PDF Toolkit front ends:                                  *)
(*   - the React components PdfMerger, PdfSplitter (src/components), and   *)
(*   - the page script of the Flask variant (second half of App.tsx),      *)
(*     together with the session store it talks to.  The server (app.py)   *)
(*     is not part of the sources; its handlers are modelled from the      *)
(*     specification and are marked as such in the model map.              *)
(* Arrays keep the code's 0-based indices at the interface of every        *)
(* operator; sequences are 1-based inside.                                 *)
(***************************************************************************)
EXTENDS Integers, Sequences, FiniteSets, TLC

VARIABLES
    \* ---- PdfMerger (React) ----
    pdfFiles,       \* useState<PdfFile[]>: the list, entries [id, file]
    isMerged,       \* useState(false)
    isMerging,      \* useState(false)
    mergeAwait,     \* number of handleMerge calls waiting in their 1500 ms await
    closureFiles,   \* the pdfFiles value captured by the handlers of the last render
    dragItem,       \* react-dnd item of the drag in progress: item.index, or NoDrag
    nextId,         \* stands for the fresh Math.random() id of the next entry
    lastDownload,   \* payload handleDownload produced in the last step, or NoPayload
    \* history of PdfMerger, read by the properties only
    mergeStartList, \* pdfFiles when the last handleMerge was started
    removedIds,     \* ids removed by removePdf
    \* ---- the page script, merge section ----
    mergeFiles,         \* let mergeFiles = []: names, or Undefined
    shownCount,         \* merge-file-count as written by the last renderMergeFiles
    shownItems,         \* number of file-item rows in merge-files-list
    mergeResultShown,   \* merge-result is displayed
    mergeContainerShown,\* merge-files-container is displayed (upload area hidden)
    loading,            \* loading-overlay is displayed
    shownError,         \* message alerted by showError in the last step, or NoError
    scriptDownload,     \* payload downloadMerged received in the last step, or NoPayload
    requests,           \* HTTP requests sent and not yet handled by the server
    responses,          \* HTTP responses not yet delivered to the awaiting function
    nextReq,            \* number of the next request
    \* the session store on the server
    sessionFiles,       \* the session's ordered merge list
    sessionOutput,      \* the session's merged payload, or NoPayload
    \* history of the script, read by the properties only
    insertion,          \* files appended by upload responses since the last clear
    clearedSinceUpload, \* clearMergeFiles ran and no upload response was applied since
    \* a run that calls the reorder function of one front end on given arguments
    hOrig,              \* the list before the first call
    hFrom, hTo,         \* the arguments of the first call
    hStep,              \* number of calls made
    \* ---- PdfSplitter (React) ----
    pdfFile,        \* useState<File | null>: the file's name, or NoFile
    pageCount,      \* useState<number>(10)
    splitMode,      \* useState<SplitMode>('individual')
    customRanges,   \* useState<SplitRange[]>: entries [id, start, end]
    isSplitting,    \* useState(false)
    isSplit,        \* useState(false)
    splitAwait,     \* number of handleSplit calls waiting in their 2000 ms await
    rangeSizeValue, \* value of the input #rangeSize, << >> while it is not mounted
    splitDownloads, \* part numbers handleDownloadSplitFiles downloaded in the last step
    downloadRan,    \* handleDownloadSplitFiles returned in the last step
    hung,           \* handleDownloadSplitFiles is in a loop that never ends
    \* history of PdfSplitter, read by the properties only
    splitStart,     \* mode and #rangeSize value when the last handleSplit was
                    \* started, and whether the file selected then still is
    \* ---- the page script, split section ----
    splitFileInfo,      \* let splitFileInfo = null: [pages], or NoInfo
    splitModeChecked,   \* value of the checked radio input split-mode
    pagesPerFileValue,  \* value of the input pages-per-file
    scriptRanges,       \* let customRanges = [{ start: 1, end: 1 }] of the script
    splitModeInfo,      \* text of split-mode-info: what it announces
    rangesInputShown,   \* ranges-input is displayed
    customRangesShown,  \* custom-ranges is displayed
    splitContainerShown,\* split-container is displayed (upload area hidden)
    splitResultShown,   \* split-result is displayed
    splitFilesList,     \* the download links in split-files-list
    \* the session store on the server
    sessionSplitPages,  \* page count of the session's document to split, 0 if none
    sessionSplitOutputs,\* the session's split outputs, as page ranges
    \* history of the script, read by the properties only
    splitResultFor,     \* the request whose response filled split-files-list
    \* ---- PdfToEditable (React) ----
    convFile,       \* useState pdfFile of PdfToEditable: a file name, or NoFile
    extractedText,  \* useState extractedText: a sequence of characters
    isProcessing,   \* useState isProcessing
    isProcessed,    \* useState isProcessed
    exportFormat,   \* useState exportFormat
    extractAwait,   \* the handleExtract waiting in its await: started for the
                    \* "current" file, for a "previous" one, or "none"
    \* history of PdfToEditable, read by the properties only
    textFor,        \* the file the last completed handleExtract was started for
    convEvent,      \* what the last step was given or produced: the value of an
                    \* edit, the blob of a download, or NoEvent
    \* ---- the page script, convert section, and its part of the session ----
    convertContainerShown,  \* convert-container displayed (convert-upload-area is not)
    extractSectionShown,    \* convert-extract-section displayed
    convertEditorShown,     \* convert-editor displayed
    textareaValue,          \* value of the textarea extracted-text
    textUpdateTimeout,      \* the debounce timer of the input handler is running
    sessionConvFile,        \* server: the uploaded file of the convert session
    sessionText,            \* server: the stored text, or NoPayload
    \* ---- the page script, uploadFilesWithProgress ----
    progressDisplay,        \* progressDiv.style.display: "none" or "block"
    progressPercent,        \* the number of progressPercent.textContent
    simulatedProgress,      \* let simulatedProgress
    simulationInterval,     \* the timer of setInterval is set
    hideTimeout,            \* the 500 ms timer of the load listener is running
    xhrState,               \* "unsent", "sending" or "done"
    uploadTotal,            \* e.total of the upload's progress events
    uploadLoaded,           \* e.loaded of the last progress event that was shown
    \* which front end this run is of
    ui

mergerVars == <<pdfFiles, isMerged, isMerging, mergeAwait, closureFiles, dragItem,
                nextId, lastDownload, mergeStartList, removedIds>>

scriptVars == <<mergeFiles, shownCount, shownItems, mergeResultShown,
                mergeContainerShown, loading, shownError, scriptDownload, requests,
                responses, nextReq, sessionFiles, sessionOutput, insertion,
                clearedSinceUpload>>

callVars == <<hOrig, hFrom, hTo, hStep>>

splitterVars == <<pdfFile, pageCount, splitMode, customRanges, isSplitting, isSplit,
                  splitAwait, rangeSizeValue, splitDownloads, downloadRan, hung,
                  splitStart>>

scriptSplitVars == <<splitFileInfo, splitModeChecked, pagesPerFileValue, scriptRanges,
                     splitModeInfo, rangesInputShown, customRangesShown,
                     splitContainerShown, splitResultShown, splitFilesList,
                     sessionSplitPages, sessionSplitOutputs, splitResultFor>>

\* what the merge section of the script and its part of the session hold
mergeSectionVars == <<mergeFiles, shownCount, shownItems, mergeResultShown,
                      mergeContainerShown, scriptDownload, sessionFiles, sessionOutput,
                      insertion, clearedSinceUpload>>

splitVars == <<splitterVars, scriptSplitVars>>

editableVars == <<convFile, extractedText, isProcessing, isProcessed, exportFormat,
                  extractAwait, textFor>>

scriptConvertVars == <<convertContainerShown, extractSectionShown, convertEditorShown,
                       textareaValue, textUpdateTimeout, sessionConvFile, sessionText>>

convertVars == <<editableVars, convEvent, scriptConvertVars>>

uploadVars == <<progressDisplay, progressPercent, simulatedProgress, simulationInterval,
                hideTimeout, xhrState, uploadTotal, uploadLoaded>>

vars == <<ui, mergerVars, scriptVars, callVars, splitVars, convertVars, uploadVars>>

(***************************************************************************)
(* Bounds of the model.                                                    *)
(***************************************************************************)
MaxIds == 3        \* entries ever created in one PdfMerger run
MaxSelect == 2     \* files in one selection of the file input
MaxReqs == 4       \* HTTP requests sent in one run of the script
MaxList == 3       \* length of the session's merge list
MaxLen == 3        \* length of the list a reorder function is called on
MaxPages == 10     \* page count of a document that is split
MaxRanges == 2     \* custom ranges declared at a time
MaxRangeEnd == 3   \* last page of a custom range made by addRange
MaxEdits == 2      \* handler calls of a range editing run
MaxText == 2       \* characters of a text typed into the editor
MaxUpdates == 1    \* update-text requests on their way at a time
MaxTabSteps == 3   \* steps of a run of the page with files in all three sections
MaxBytes == 2      \* e.total of an upload, in units the progress events count

(***************************************************************************)
(* JavaScript arrays.                                                      *)
(***************************************************************************)
Min(a, b) == IF a < b THEN a ELSE b
Max(a, b) == IF a > b THEN a ELSE b

\* Array.prototype.splice's normalisation of its start argument
SpliceStart(len, start) ==
    IF start < 0 THEN Max(len + start, 0) ELSE Min(start, len)

\* arr.splice(start, 1): the array that is left
SpliceRemove1(arr, start) ==
    LET s == SpliceStart(Len(arr), start)
    IN  IF s >= Len(arr) THEN arr
        ELSE SubSeq(arr, 1, s) \o SubSeq(arr, s + 2, Len(arr))

\* arr.splice(start, 1): the removed elements (an array of length 0 or 1)
SpliceRemoved1(arr, start) ==
    LET s == SpliceStart(Len(arr), start)
    IN  IF s >= Len(arr) THEN <<>> ELSE <<arr[s + 1]>>

\* arr.splice(start, 0, x): the array after the insertion
SpliceInsert(arr, start, x) ==
    LET s == SpliceStart(Len(arr), start)
    IN  SubSeq(arr, 1, s) \o <<x>> \o SubSeq(arr, s + 1, Len(arr))

Range(arr) == {arr[k] : k \in 1..Len(arr)}

\* all sequences over S of length at most n
SeqsUpTo(S, n) == UNION {[1..k -> S] : k \in 0..n}

(***************************************************************************)
(* Files the user can pick.  file.type is the browser's content type.      *)
(***************************************************************************)
PdfType == "application/pdf"
Files == {"a.pdf", "b.pdf", "c.pdf", "n.txt"}
FileType(f) == IF f = "n.txt" THEN "text/plain" ELSE PdfType
\* pages of each document (a 3-page, a 5-page and a 2-page PDF)
PageCountOf(f) == CASE f = "a.pdf" -> 3 [] f = "b.pdf" -> 5 [] f = "c.pdf" -> 2 [] OTHER -> 0
PagesOf(f) == [p \in 1..PageCountOf(f) |-> <<f, p>>]

\* the selections offered to the script's merge-file-input
MergeSelections ==
    {<<>>, <<"n.txt">>, <<"a.pdf">>, <<"a.pdf", "b.pdf">>, <<"b.pdf", "n.txt">>}

\* the files offered to the PdfMerger file input: one PDF (picked any number of
\* times, each pick a new entry with its own id) and one file of another type
MergerFiles == {"a.pdf", "n.txt"}

RECURSIVE ConcatPages(_)
ConcatPages(docs) ==
    IF docs = <<>> THEN <<>> ELSE PagesOf(Head(docs)) \o ConcatPages(Tail(docs))

RECURSIVE SumPages(_)
SumPages(docs) ==
    IF docs = <<>> THEN 0 ELSE PageCountOf(Head(docs)) + SumPages(Tail(docs))

(***************************************************************************)
(* PdfMerger.tsx                                                           *)
(***************************************************************************)
NoDrag == -1
NoPayload == <<"none">>
\* what [draggedItem] = [] binds: undefined, written as an entry
UndefinedEntry == [id |-> 0, file |-> "undefined"]

\* the array built by Array.from(files).filter(...).map(...), ids from firstId on
RECURSIVE NewFiles(_, _)
NewFiles(files, firstId) ==
    IF files = <<>> THEN <<>>
    ELSE IF FileType(Head(files)) = PdfType
         THEN <<[id |-> firstId, file |-> Head(files)]>> \o NewFiles(Tail(files), firstId + 1)
         ELSE NewFiles(Tail(files), firstId)

\* prev.filter(pdf => pdf.id !== id)
RECURSIVE FilterOutId(_, _)
FilterOutId(prev, id) ==
    IF prev = <<>> THEN <<>>
    ELSE (IF Head(prev).id # id THEN <<Head(prev)>> ELSE <<>>) \o FilterOutId(Tail(prev), id)

\* movePdf's updatedFiles, computed from the captured list
\* a variant that inserts the dragged entry before it removes it
MovePdfResultInsertFirst(files, dragIndex, hoverIndex) ==
    LET removed == SpliceRemoved1(files, dragIndex)
        draggedItem == IF removed = <<>> THEN UndefinedEntry ELSE removed[1]
    IN  SpliceRemove1(SpliceInsert(files, hoverIndex, draggedItem), dragIndex)

MovePdfResult(files, dragIndex, hoverIndex) ==
    LET removed == SpliceRemoved1(files, dragIndex)
        draggedItem == IF removed = <<>> THEN UndefinedEntry ELSE removed[1]
    IN  SpliceInsert(SpliceRemove1(files, dragIndex), hoverIndex, draggedItem)

\* a variant without the test of the list's length
MergeDisabledWhileMerging == isMerging

\* disabled={pdfFiles.length < 2 || isMerging}
MergeDisabled == Len(closureFiles) < 2 \/ isMerging
\* the merge button is rendered: pdfFiles.length > 0 && !isMerged
MergeButtonShown == Len(closureFiles) > 0 /\ ~isMerged
\* the download button is rendered: pdfFiles.length > 0 && isMerged
DownloadButtonShown == Len(closureFiles) > 0 /\ isMerged

\* new Blob(['Merged PDF content'])
MergedBlob == <<"Merged PDF content">>

\* every handler ends with React rendering the new state
Rendered(files) == files

\* a step of the PdfMerger component: nothing of the other front ends changes
\* (hStep marks the state right after a tab switch, see SetActiveTab)
InMerger ==
    /\ ui = "PdfMerger"
    /\ hStep' = 0
    /\ UNCHANGED <<ui, uploadVars, convertVars, scriptVars, hOrig, hFrom, hTo, splitVars>>

MergerInit ==
    /\ pdfFiles = <<>>
    /\ isMerged = FALSE
    /\ isMerging = FALSE
    /\ mergeAwait = 0
    /\ closureFiles = <<>>
    /\ dragItem = NoDrag
    /\ nextId = 1
    /\ lastDownload = NoPayload
    /\ mergeStartList = <<>>
    /\ removedIds = {}

\* handleFileSelect(files), files a FileList (the null case returns at once)
HandleFileSelect(files) ==
    LET newFiles == NewFiles(files, nextId)
    IN  /\ InMerger
        /\ dragItem = NoDrag
        /\ nextId + Len(newFiles) - 1 <= MaxIds
        /\ pdfFiles' = pdfFiles \o newFiles
        /\ isMerged' = FALSE
        /\ closureFiles' = Rendered(pdfFiles')
        /\ nextId' = nextId + Len(newFiles)
        /\ lastDownload' = NoPayload
        /\ UNCHANGED <<isMerging, mergeAwait, dragItem, mergeStartList, removedIds>>

\* removePdf(id), from the X button of a rendered item
RemovePdf(id) ==
    /\ InMerger
    /\ dragItem = NoDrag
    /\ \E k \in 1..Len(closureFiles) : closureFiles[k].id = id
    /\ pdfFiles' = FilterOutId(pdfFiles, id)
    /\ isMerged' = FALSE
    /\ closureFiles' = Rendered(pdfFiles')
    /\ removedIds' = removedIds \cup {id}
    /\ lastDownload' = NoPayload
    /\ UNCHANGED <<isMerging, mergeAwait, dragItem, nextId, mergeStartList>>

\* movePdf(dragIndex, hoverIndex)
MovePdf(dragIndex, hoverIndex) ==
    /\ pdfFiles' = MovePdfResult(closureFiles, dragIndex, hoverIndex)
    /\ isMerged' = FALSE
    /\ closureFiles' = Rendered(pdfFiles')

\* useDrag: a drag of the rendered item at index begins
DragBegin(index) ==
    /\ InMerger
    /\ dragItem = NoDrag
    /\ index \in 0..(Len(closureFiles) - 1)
    /\ dragItem' = index
    /\ lastDownload' = NoPayload
    /\ UNCHANGED <<pdfFiles, isMerged, isMerging, mergeAwait, closureFiles, nextId, mergeStartList, removedIds>>

\* a hover that would move the file and leave item.index as it was
HoverKeepingIndex(index) ==
    /\ InMerger
    /\ dragItem # NoDrag
    /\ index \in 0..(Len(closureFiles) - 1)
    /\ IF dragItem = index
       THEN UNCHANGED <<pdfFiles, isMerged, closureFiles>>
       ELSE MovePdf(dragItem, index)
    /\ UNCHANGED dragItem
    /\ lastDownload' = NoPayload
    /\ UNCHANGED <<isMerging, mergeAwait, nextId, mergeStartList, removedIds>>

\* useDrop hover of the rendered item at index, which returns early over the
\* dragged item's own position
Hover(index) ==
    /\ InMerger
    /\ dragItem # NoDrag
    /\ index \in 0..(Len(closureFiles) - 1)
    /\ IF dragItem = index
       THEN UNCHANGED <<pdfFiles, isMerged, closureFiles, dragItem>>
       ELSE MovePdf(dragItem, index) /\ dragItem' = index
    /\ lastDownload' = NoPayload
    /\ UNCHANGED <<isMerging, mergeAwait, nextId, mergeStartList, removedIds>>

\* the drag ends (drop or cancel)
DragEnd ==
    /\ InMerger
    /\ dragItem # NoDrag
    /\ dragItem' = NoDrag
    /\ lastDownload' = NoPayload
    /\ UNCHANGED <<pdfFiles, isMerged, isMerging, mergeAwait, closureFiles, nextId, mergeStartList, removedIds>>

\* handleMerge up to its await: the button must be rendered and enabled
HandleMerge ==
    /\ InMerger
    /\ dragItem = NoDrag
    /\ MergeButtonShown
    /\ ~MergeDisabled
    /\ isMerging' = TRUE
    /\ mergeAwait' = mergeAwait + 1
    /\ mergeStartList' = pdfFiles
    /\ lastDownload' = NoPayload
    /\ UNCHANGED <<pdfFiles, isMerged, closureFiles, dragItem, nextId, removedIds>>

\* handleMerge after its await: the 1500 ms timer has fired
MergeDone ==
    /\ InMerger
    /\ mergeAwait > 0
    /\ mergeAwait' = mergeAwait - 1
    /\ isMerging' = FALSE
    /\ isMerged' = TRUE
    /\ lastDownload' = NoPayload
    /\ UNCHANGED <<pdfFiles, closureFiles, dragItem, nextId, mergeStartList, removedIds>>

\* handleDownload, from the download button
HandleDownload ==
    /\ InMerger
    /\ dragItem = NoDrag
    /\ DownloadButtonShown
    /\ lastDownload' = MergedBlob
    /\ UNCHANGED <<pdfFiles, isMerged, isMerging, mergeAwait, closureFiles, dragItem,
                   nextId, mergeStartList, removedIds>>


(***************************************************************************)
(* The page script, merge section (App.tsx, lines 87-299), and the merge   *)
(* handlers of the session store.                                          *)
(***************************************************************************)
NoError == "none"
\* the value of an array element that was never assigned, or assigned undefined
Undefined == "undefined"

\* a run of the page while all three sections hold a file: the sections' steps
\* are counted and the run ends after MaxTabSteps of them
TabsRun ==
    /\ ui = "ScriptTabs"
    /\ hStep < MaxTabSteps
    /\ hStep' = hStep + 1
    /\ UNCHANGED <<hFrom, hTo>>

\* a step the user starts in the script's merge section
InScript ==
    /\ \/ ui = "ScriptMerge" /\ UNCHANGED callVars
       \/ TabsRun /\ UNCHANGED hOrig
    /\ UNCHANGED <<ui, uploadVars, convertVars, mergerVars, splitVars>>
\* a step of the server, or of a function of the script resumed by a response
InScriptAsync ==
    /\ \/ ui \in {"ScriptMerge", "MoveFileCall", "ReorderRun"} /\ UNCHANGED callVars
       \/ TabsRun /\ UNCHANGED hOrig
    /\ UNCHANGED <<ui, uploadVars, convertVars, mergerVars, splitVars>>

\* arr[i], i a 0-based index
ArrayGet(arr, i) == IF i >= 0 /\ i < Len(arr) THEN arr[i + 1] ELSE Undefined

\* arr[i] = x: an index past the end extends the array, a negative index names a
\* property that is no element
ArraySet(arr, i, x) ==
    IF i < 0 THEN arr
    ELSE IF i < Len(arr) THEN [arr EXCEPT ![i + 1] = x]
    ELSE [k \in 1..(i + 1) |-> IF k <= Len(arr) THEN arr[k] ELSE IF k = i + 1 THEN x ELSE Undefined]

\* [mergeFiles[fromIndex], mergeFiles[toIndex]] = [mergeFiles[toIndex], mergeFiles[fromIndex]]
SwapEntries(arr, fromIndex, toIndex) ==
    LET first == ArrayGet(arr, toIndex)
        second == ArrayGet(arr, fromIndex)
    IN  ArraySet(ArraySet(arr, fromIndex, first), toIndex, second)

\* renderMergeFiles throws a TypeError at file.name of an undefined entry
RenderThrows(files) == \E k \in 1..Len(files) : files[k] = Undefined
\* rows appended to merge-files-list before the loop ends or throws
RenderedRows(files) ==
    IF RenderThrows(files)
    THEN (CHOOSE k \in 1..Len(files) :
              files[k] = Undefined /\ \A j \in 1..(k - 1) : files[j] # Undefined) - 1
    ELSE Len(files)

\* mergePDFs' guard
TooFewToMerge == Len(mergeFiles) < 2
\* moveFile's guard
MoveFileRejected(fromIndex, toIndex) == toIndex < 0 \/ toIndex >= Len(mergeFiles)
\* the upload handler's merge of data.files into mergeFiles
AfterUpload(files) == IF Len(mergeFiles) > 0 THEN mergeFiles \o files ELSE files

\* the entries of an upload that pass the server's PDF check
RECURSIVE AcceptedFiles(_)
AcceptedFiles(files) ==
    IF files = <<>> THEN <<>>
    ELSE (IF FileType(Head(files)) = PdfType THEN <<Head(files)>> ELSE <<>>)
         \o AcceptedFiles(Tail(files))

\* the session's reorder: the element at fromIndex moved to toIndex
SessionReorder(list, fromIndex, toIndex) ==
    LET x == list[fromIndex + 1]
        rest == SubSeq(list, 1, fromIndex) \o SubSeq(list, fromIndex + 2, Len(list))
    IN  SubSeq(rest, 1, toIndex) \o <<x>> \o SubSeq(rest, toIndex + 1, Len(rest))
InRange(list, i) == i >= 0 /\ i < Len(list)

\* requests and responses carry the number of their request
CanSend == nextReq <= MaxReqs
Request(kind, files, fromIndex, toIndex) ==
    [rid |-> nextReq, kind |-> kind, files |-> files, from |-> fromIndex, to |-> toIndex]
Response(req, success, files) ==
    [rid |-> req.rid, kind |-> req.kind, success |-> success, files |-> files,
     from |-> req.from, to |-> req.to]

\* valid files of the uploads still on their way
RECURSIVE PendingValid(_)
PendingValid(msgs) ==
    IF msgs = {} THEN 0
    ELSE LET m == CHOOSE x \in msgs : TRUE
         IN  (IF m.kind = "upload" THEN Len(AcceptedFiles(m.files)) ELSE 0)
             + PendingValid(msgs \ {m})

ScriptInit ==
    /\ mergeFiles = <<>>
    /\ shownCount = 0
    /\ shownItems = 0
    /\ mergeResultShown = FALSE
    /\ mergeContainerShown = FALSE
    /\ loading = FALSE
    /\ shownError = NoError
    /\ scriptDownload = NoPayload
    /\ requests = {}
    /\ responses = {}
    /\ nextReq = 1
    /\ sessionFiles = <<>>
    /\ sessionOutput = NoPayload
    /\ insertion = <<>>
    /\ clearedSinceUpload = FALSE

\* the change handler of merge-file-input
MergeInputChange(files) ==
    /\ InScript
    /\ ~loading
    /\ IF Len(files) = 0
       THEN UNCHANGED <<loading, requests, nextReq>>
       ELSE /\ CanSend
            /\ nextReq' = nextReq + 1
            /\ Max(Len(mergeFiles), Len(sessionFiles)) + PendingValid(requests)
                   + Len(AcceptedFiles(files)) <= MaxList
            /\ loading' = TRUE
            /\ requests' = requests \cup {Request("upload", files, 0, 0)}
    /\ shownError' = NoError
    /\ scriptDownload' = NoPayload
    /\ UNCHANGED <<mergeFiles, shownCount, shownItems, mergeResultShown,
                   mergeContainerShown, responses, sessionFiles, sessionOutput,
                   insertion, clearedSinceUpload>>

\* what the promise of uploadFilesWithProgress does when the upload ends other
\* than with a 2xx status and a JSON body: the message it rejects with, or
\* NoError when it is neither resolved nor rejected (JSON.parse throws inside
\* the load listener, outside of any try)
UploadRejection(outcome) ==
    CASE outcome = "2xx-nonjson" -> "Invalid response format"
      [] outcome = "non2xx-json" -> "error of the response"
      [] outcome = "non2xx-empty" -> "Upload failed"
      [] outcome = "non2xx-nonjson" -> NoError
      [] outcome = "network-error" -> "Network error during upload"
      [] outcome = "abort" -> "Upload cancelled"

\* the upload q ends with such an outcome: the change handler catches the
\* rejection, shows its message and hides the overlay, or waits for ever
UploadFailure(q, outcome) ==
    /\ InScript
    /\ q \in requests /\ q.kind = "upload"
    /\ requests' = requests \ {q}
    /\ IF UploadRejection(outcome) = NoError
       THEN UNCHANGED <<loading, shownError>>
       ELSE /\ loading' = FALSE
            /\ shownError' = UploadRejection(outcome)
    /\ scriptDownload' = NoPayload
    /\ UNCHANGED <<mergeFiles, shownCount, shownItems, mergeResultShown,
                   mergeContainerShown, responses, nextReq, sessionFiles, sessionOutput,
                   insertion, clearedSinceUpload>>

\* the change handler after its await: the upload's response is there
UploadResponse(r) ==
    /\ InScriptAsync
    /\ r \in responses /\ r.kind = "upload"
    /\ responses' = responses \ {r}
    /\ loading' = FALSE
    /\ IF r.success
       THEN /\ mergeFiles' = AfterUpload(r.files)
            /\ shownCount' = Len(mergeFiles')
            /\ shownItems' = RenderedRows(mergeFiles')
            /\ insertion' = insertion \o r.files
            /\ clearedSinceUpload' = FALSE
            /\ IF RenderThrows(mergeFiles')
               THEN /\ shownError' = "TypeError"
                    /\ UNCHANGED <<mergeResultShown, mergeContainerShown>>
               ELSE /\ mergeResultShown' = FALSE
                    /\ mergeContainerShown' = TRUE
                    /\ shownError' = NoError
       ELSE /\ shownError' = "Failed to upload files"
            /\ UNCHANGED <<mergeFiles, shownCount, shownItems, mergeResultShown,
                           mergeContainerShown, insertion, clearedSinceUpload>>
    /\ scriptDownload' = NoPayload
    /\ UNCHANGED <<requests, nextReq, sessionFiles, sessionOutput>>

\* moveFile(fromIndex, toIndex) up to its await
MoveFileCall(fromIndex, toIndex) ==
    /\ IF MoveFileRejected(fromIndex, toIndex)
       THEN UNCHANGED <<requests, nextReq>>
       ELSE /\ CanSend
            /\ nextReq' = nextReq + 1
            /\ requests' = requests \cup {Request("reorder", <<>>, fromIndex, toIndex)}
    /\ shownError' = NoError
    /\ scriptDownload' = NoPayload
    /\ UNCHANGED <<mergeFiles, shownCount, shownItems, mergeResultShown,
                   mergeContainerShown, loading, responses, sessionFiles,
                   sessionOutput, insertion, clearedSinceUpload>>

\* a click on an arrow button of a rendered row: onclick="moveFile(index, index -+ 1)"
MoveFile(fromIndex, toIndex) ==
    /\ InScript
    /\ ~loading /\ mergeContainerShown
    /\ fromIndex \in 0..(shownItems - 1)
    /\ \/ toIndex = fromIndex - 1 /\ fromIndex # 0
       \/ toIndex = fromIndex + 1 /\ fromIndex # shownCount - 1
    /\ MoveFileCall(fromIndex, toIndex)

\* moveFile after its await
MoveFileResponse(r) ==
    /\ InScriptAsync
    /\ r \in responses /\ r.kind = "reorder"
    /\ responses' = responses \ {r}
    /\ IF r.success
       THEN /\ mergeFiles' = SwapEntries(mergeFiles, r.from, r.to)
            /\ shownCount' = Len(mergeFiles')
            /\ shownItems' = RenderedRows(mergeFiles')
            /\ IF RenderThrows(mergeFiles')
               THEN /\ shownError' = "Failed to reorder files"
                    /\ UNCHANGED mergeResultShown
               ELSE /\ mergeResultShown' = FALSE
                    /\ shownError' = NoError
       ELSE /\ shownError' = NoError
            /\ UNCHANGED <<mergeFiles, shownCount, shownItems, mergeResultShown>>
    /\ scriptDownload' = NoPayload
    /\ UNCHANGED <<mergeContainerShown, loading, requests, nextReq, sessionFiles,
                   sessionOutput, insertion, clearedSinceUpload>>

\* mergePDFs() up to its await
MergePDFs ==
    /\ InScript
    /\ ~loading
    /\ IF TooFewToMerge
       THEN /\ shownError' = "Need at least 2 files to merge"
            /\ UNCHANGED <<loading, requests, nextReq>>
       ELSE /\ CanSend
            /\ nextReq' = nextReq + 1
            /\ loading' = TRUE
            /\ requests' = requests \cup {Request("process", <<>>, 0, 0)}
            /\ shownError' = NoError
    /\ scriptDownload' = NoPayload
    /\ UNCHANGED <<mergeFiles, shownCount, shownItems, mergeResultShown,
                   mergeContainerShown, responses, sessionFiles, sessionOutput,
                   insertion, clearedSinceUpload>>

\* mergePDFs() after its await
MergeResponse(r) ==
    /\ InScriptAsync
    /\ r \in responses /\ r.kind = "process"
    /\ responses' = responses \ {r}
    /\ loading' = FALSE
    /\ IF r.success
       THEN mergeResultShown' = TRUE /\ shownError' = NoError
       ELSE shownError' = "Failed to merge PDFs" /\ UNCHANGED mergeResultShown
    /\ scriptDownload' = NoPayload
    /\ UNCHANGED <<mergeFiles, shownCount, shownItems, mergeContainerShown, requests,
                   nextReq, sessionFiles, sessionOutput, insertion, clearedSinceUpload>>

\* downloadMerged(): the browser fetches /merge/download
DownloadMerged ==
    /\ InScript
    /\ ~loading /\ mergeResultShown
    /\ scriptDownload' = sessionOutput
    /\ shownError' = NoError
    /\ UNCHANGED <<mergeFiles, shownCount, shownItems, mergeResultShown,
                   mergeContainerShown, loading, requests, responses, nextReq,
                   sessionFiles, sessionOutput, insertion, clearedSinceUpload>>

\* a clearMergeFiles() that would hide the split section's container as well
ClearMergeFilesAndSplit ==
    /\ \/ ui = "ScriptMerge" /\ UNCHANGED callVars
       \/ TabsRun /\ UNCHANGED hOrig
    /\ UNCHANGED <<ui, uploadVars, convertVars, mergerVars, splitterVars>>
    /\ splitContainerShown' = FALSE
    /\ UNCHANGED <<splitFileInfo, splitModeChecked, pagesPerFileValue, scriptRanges,
                   splitModeInfo, rangesInputShown, customRangesShown, splitResultShown,
                   splitFilesList, sessionSplitPages, sessionSplitOutputs, splitResultFor>>
    /\ ~loading /\ mergeContainerShown
    /\ CanSend
    /\ nextReq' = nextReq + 1
    /\ mergeFiles' = <<>>
    /\ mergeContainerShown' = FALSE
    /\ requests' = requests \cup {Request("clear", <<>>, 0, 0)}
    /\ insertion' = <<>>
    /\ clearedSinceUpload' = TRUE
    /\ shownError' = NoError
    /\ scriptDownload' = NoPayload
    /\ UNCHANGED <<shownCount, shownItems, mergeResultShown, loading, responses,
                   sessionFiles, sessionOutput>>

\* clearMergeFiles()
ClearMergeFiles ==
    /\ InScript
    /\ ~loading /\ mergeContainerShown
    /\ CanSend
    /\ nextReq' = nextReq + 1
    /\ mergeFiles' = <<>>
    /\ mergeContainerShown' = FALSE
    /\ requests' = requests \cup {Request("clear", <<>>, 0, 0)}
    /\ insertion' = <<>>
    /\ clearedSinceUpload' = TRUE
    /\ shownError' = NoError
    /\ scriptDownload' = NoPayload
    /\ UNCHANGED <<shownCount, shownItems, mergeResultShown, loading, responses,
                   sessionFiles, sessionOutput>>

\* ---- the session store ----
\* a step of the server changes nothing in the page
ServerFrame ==
    /\ shownError' = NoError
    /\ scriptDownload' = NoPayload
    /\ UNCHANGED <<mergeFiles, shownCount, shownItems, mergeResultShown,
                   mergeContainerShown, loading, nextReq, insertion,
                   clearedSinceUpload>>

\* POST /merge/upload
ServerUpload(q) ==
    /\ InScriptAsync
    /\ q \in requests /\ q.kind = "upload"
    /\ requests' = requests \ {q}
    /\ sessionFiles' = sessionFiles \o AcceptedFiles(q.files)
    /\ sessionOutput' = IF AcceptedFiles(q.files) = <<>> THEN sessionOutput ELSE NoPayload
    /\ responses' = responses \cup {Response(q, TRUE, AcceptedFiles(q.files))}
    /\ ServerFrame

\* POST /merge/reorder
ServerReorder(q) ==
    /\ InScriptAsync
    /\ q \in requests /\ q.kind = "reorder"
    /\ requests' = requests \ {q}
    /\ IF InRange(sessionFiles, q.from) /\ InRange(sessionFiles, q.to)
       THEN /\ sessionFiles' = SessionReorder(sessionFiles, q.from, q.to)
            /\ sessionOutput' = IF q.from = q.to THEN sessionOutput ELSE NoPayload
            /\ responses' = responses \cup {Response(q, TRUE, <<>>)}
       ELSE /\ responses' = responses \cup {Response(q, FALSE, <<>>)}
            /\ UNCHANGED <<sessionFiles, sessionOutput>>
    /\ ServerFrame

\* POST /merge/process
ServerProcess(q) ==
    /\ InScriptAsync
    /\ q \in requests /\ q.kind = "process"
    /\ requests' = requests \ {q}
    /\ IF Len(sessionFiles) >= 2
       THEN /\ sessionOutput' = ConcatPages(sessionFiles)
            /\ responses' = responses \cup {Response(q, TRUE, <<>>)}
       ELSE /\ responses' = responses \cup {Response(q, FALSE, <<>>)}
            /\ UNCHANGED sessionOutput
    /\ UNCHANGED sessionFiles
    /\ ServerFrame

\* POST /clear/merge, whose response the script ignores
ServerClear(q) ==
    /\ InScriptAsync
    /\ q \in requests /\ q.kind = "clear"
    /\ requests' = requests \ {q}
    /\ sessionFiles' = <<>>
    /\ sessionOutput' = NoPayload
    /\ UNCHANGED responses
    /\ ServerFrame

(***************************************************************************)
(* JavaScript numbers, as far as the split code computes with them, and    *)
(* strings as sequences of characters.                                     *)
(***************************************************************************)
Num(v) == [kind |-> "num", v |-> v]
NaN == [kind |-> "NaN", v |-> 0]
Infinity == [kind |-> "Infinity", v |-> 0]
NegInfinity == [kind |-> "-Infinity", v |-> 0]
NegZero == [kind |-> "-0", v |-> 0]

DigitChars == <<"0", "1", "2", "3", "4", "5", "6", "7", "8", "9">>
IsDigit(c) == \E i \in 1..10 : DigitChars[i] = c
DigitVal(c) == (CHOOSE i \in 1..10 : DigitChars[i] = c) - 1

RECURSIVE DigitPrefix(_)
DigitPrefix(s) ==
    IF s = <<>> \/ ~IsDigit(Head(s)) THEN <<>>
    ELSE <<Head(s)>> \o DigitPrefix(Tail(s))

RECURSIVE DigitsValue(_, _)
DigitsValue(d, acc) ==
    IF d = <<>> THEN acc ELSE DigitsValue(Tail(d), 10 * acc + DigitVal(Head(d)))

\* parseInt(s): an optional sign, then the longest run of decimal digits; NaN if
\* there is no digit (the strings an <input type="number"> holds have no leading
\* blank and no 0x prefix)
ParseInt(s) ==
    LET signed == s # <<>> /\ Head(s) \in {"-", "+"}
        neg == s # <<>> /\ Head(s) = "-"
        digits == DigitPrefix(IF signed THEN Tail(s) ELSE s)
        n == DigitsValue(digits, 0)
    IN  IF digits = <<>> THEN NaN
        ELSE IF neg /\ n = 0 THEN NegZero
        ELSE IF neg THEN Num(0 - n)
        ELSE Num(n)

\* value || d, for a string value (also when value is undefined)
OrDefault(value, d) == IF value = <<>> THEN d ELSE value

\* x || d, for a number x
NumOrDefault(x, d) ==
    IF x.kind \in {"NaN", "-0"} \/ (x.kind = "num" /\ x.v = 0) THEN d ELSE x

\* a variant that rounds down
FloorDiv(n, k) ==
    IF k.kind = "NaN" THEN NaN
    ELSE IF k.kind = "-0" THEN NegInfinity
    ELSE IF k.v = 0 THEN Infinity
    ELSE IF k.v > 0 THEN Num(n \div k.v)
    ELSE Num(0 - ((n + (0 - k.v) - 1) \div (0 - k.v)))

\* Math.ceil(n / k) for an integer n > 0
CeilDiv(n, k) ==
    IF k.kind = "NaN" THEN NaN
    ELSE IF k.kind = "-0" THEN NegInfinity
    ELSE IF k.v = 0 THEN Infinity
    ELSE IF k.v > 0 THEN Num((n + k.v - 1) \div k.v)
    ELSE Num(0 - (n \div (0 - k.v)))

(***************************************************************************)
(* PdfSplitter (React).                                                    *)
(***************************************************************************)
NoFile == "null"
SplitModes == {"individual", "ranges", "custom"}
\* what the user can have typed into the start or end input of a custom range
RangeInputs == {<<>>, <<"3">>, <<"-", "1">>, <<"1", "2">>}
\* what the user can have typed into #rangeSize
SizeInputs == {<<>>, <<"0">>, <<"1">>, <<"4">>, <<"-", "1">>, <<"-", "0">>, <<"1", "2">>}
\* selections of the splitter's file input, and drops on its upload area
SplitSelections == {<<>>, <<"a.pdf">>, <<"n.txt">>, <<"b.pdf", "n.txt">>}
\* Math.floor(Math.random() * 20) + 5, cut at MaxPages
RandomPageCounts == {p \in 5..24 : p <= MaxPages}

CustomRangeIds == 1..(MaxRanges + 1)
\* the id of a new range differs from the ids in use
FreshRangeId(ranges) ==
    CHOOSE i \in 2..(Len(ranges) + 2) : \A k \in 1..Len(ranges) : ranges[k].id # i

\* fileCount of handleDownloadSplitFiles
FileCount(mode, pages, sizeValue, ranges) ==
    IF mode = "individual" THEN Num(pages)
    ELSE IF mode = "ranges" THEN CeilDiv(pages, ParseInt(OrDefault(sizeValue, <<"2">>)))
    ELSE Num(Len(ranges))

\* the loop for (let i = 0; i < fileCount; i++) returns, after LoopRuns rounds
LoopReturns(fileCount) == fileCount.kind # "Infinity"
LoopRuns(fileCount) == IF fileCount.kind = "num" THEN Max(0, fileCount.v) ELSE 0

\* getSplitDescription(): the count it announces and the pages of each file
GetSplitDescription(mode, pages, sizeValue, ranges) ==
    IF mode = "individual" THEN [text |-> "separate files", count |-> Num(pages), each |-> Num(1)]
    ELSE IF mode = "ranges" THEN
        LET rangeSize == ParseInt(OrDefault(sizeValue, <<"2">>))
        IN  [text |-> "files", count |-> CeilDiv(pages, rangeSize), each |-> rangeSize]
    ELSE [text |-> "custom files", count |-> Num(Len(ranges)), each |-> Num(0)]

\* rendering of the action buttons
SplitButtonShown == pdfFile # NoFile /\ ~isSplit
SplitDisabled == isSplitting
DownloadAllShown == pdfFile # NoFile /\ isSplit
OptionsShown == pdfFile # NoFile
RangeSizeMounted == pdfFile # NoFile /\ splitMode = "ranges"

NoStart == [mode |-> "none", size |-> <<>>, current |-> FALSE]

InSplitter ==
    /\ ui = "PdfSplitter"
    /\ ~hung
    /\ hStep' = 0
    /\ UNCHANGED <<ui, uploadVars, convertVars, mergerVars, scriptVars, hOrig, hFrom, hTo,
                   scriptSplitVars>>
NoDownloadStep == splitDownloads' = <<>> /\ downloadRan' = FALSE /\ UNCHANGED hung

\* the handlers that a range editing run drives as well: there they are counted,
\* and the run ends after MaxEdits of them
InRangeEditor ==
    /\ ~hung
    /\ \/ ui = "PdfSplitter" /\ hStep' = 0 /\ UNCHANGED <<hOrig, hFrom, hTo>>
       \/ /\ ui = "RangeEditing"
          /\ hStep < MaxEdits
          /\ hStep' = hStep + 1
          /\ hOrig' = <<>>
          /\ UNCHANGED <<hFrom, hTo>>
    /\ UNCHANGED <<ui, uploadVars, convertVars, mergerVars, scriptVars, scriptSplitVars>>

SplitterInit ==
    /\ pdfFile = NoFile
    /\ pageCount = 10
    /\ splitMode = "individual"
    /\ customRanges = <<[id |-> 1, start |-> 1, end |-> 1]>>
    /\ isSplitting = FALSE
    /\ isSplit = FALSE
    /\ splitAwait = 0
    /\ rangeSizeValue = <<>>
    /\ splitDownloads = <<>>
    /\ downloadRan = FALSE
    /\ hung = FALSE
    /\ splitStart = NoStart

\* handleFileSelect(files) of PdfSplitter, also reached by handleDrop
SplitterFileSelect(files) ==
    /\ InRangeEditor
    /\ NoDownloadStep
    /\ IF files # <<>> /\ FileType(files[1]) = PdfType
       THEN /\ pdfFile' = files[1]
            /\ isSplit' = FALSE
            /\ pageCount' \in RandomPageCounts
            /\ splitStart' = [splitStart EXCEPT !.current = FALSE]
       ELSE UNCHANGED <<pdfFile, isSplit, pageCount, splitStart>>
    /\ UNCHANGED <<splitMode, customRanges, isSplitting, splitAwait, rangeSizeValue>>

\* onChange of a split mode radio input: setSplitMode(e.target.value)
SetSplitMode(mode) ==
    /\ InSplitter
    /\ NoDownloadStep
    /\ OptionsShown
    /\ mode # splitMode
    /\ splitMode' = mode
    \* #rangeSize is mounted with its defaultValue, or unmounted
    /\ rangeSizeValue' = IF mode = "ranges" THEN <<"2">> ELSE <<>>
    /\ UNCHANGED <<pdfFile, pageCount, customRanges, isSplitting, isSplit, splitAwait,
                   splitStart>>

\* the user edits #rangeSize, an uncontrolled input without a handler
TypeRangeSize(value) ==
    /\ InSplitter
    /\ NoDownloadStep
    /\ RangeSizeMounted
    /\ rangeSizeValue' = value
    /\ UNCHANGED <<pdfFile, pageCount, splitMode, customRanges, isSplitting, isSplit,
                   splitAwait, splitStart>>

AddRange ==
    /\ InRangeEditor
    /\ NoDownloadStep
    /\ OptionsShown /\ splitMode = "custom"
    /\ Len(customRanges) < MaxRanges
    /\ customRanges[Len(customRanges)].end < MaxRangeEnd
    /\ LET lastRange == customRanges[Len(customRanges)]
           newStart == lastRange.end + 1
       IN  customRanges' = Append(customRanges,
               [id |-> FreshRangeId(customRanges), start |-> newStart, end |-> newStart])
    /\ UNCHANGED <<pdfFile, pageCount, splitMode, isSplitting, isSplit, splitAwait,
                   rangeSizeValue, splitStart>>

\* the frame of an updateRange call of a range editing run: hOrig holds the
\* arguments of the call, << >> after any other handler
UpdateRangeCall(id, field, typed) ==
    /\ ui = "RangeEditing"
    /\ ~hung
    /\ hStep < MaxEdits
    /\ hStep' = hStep + 1
    /\ hOrig' = <<id, field, typed>>
    /\ UNCHANGED <<hFrom, hTo>>
    /\ UNCHANGED <<ui, uploadVars, convertVars, mergerVars, scriptVars, scriptSplitVars>>
    /\ NoDownloadStep
    /\ OptionsShown /\ splitMode = "custom"
    /\ \E k \in 1..Len(customRanges) : customRanges[k].id = id
    /\ UNCHANGED <<pdfFile, pageCount, splitMode, isSplitting, isSplit, splitAwait,
                   rangeSizeValue, splitStart>>

\* an updateRange that would keep start <= end by moving the other field along
UpdateRangeOrdering(id, field, typed) ==
    /\ UpdateRangeCall(id, field, typed)
    /\ LET value == NumOrDefault(ParseInt(typed), Num(1)).v
           clamped == Max(1, Min(pageCount, value))
       IN  customRanges' = [k \in 1..Len(customRanges) |->
               IF customRanges[k].id = id
               THEN IF field = "start"
                    THEN [customRanges[k] EXCEPT !.start = clamped,
                                                 !.end = Max(clamped, @)]
                    ELSE [customRanges[k] EXCEPT !.end = clamped,
                                                 !.start = Min(clamped, @)]
               ELSE customRanges[k]]

\* onChange of a start or end input: updateRange(id, field, parseInt(value) || 1)
UpdateRange(id, field, typed) ==
    /\ UpdateRangeCall(id, field, typed)
    /\ LET value == NumOrDefault(ParseInt(typed), Num(1)).v
           clamped == Max(1, Min(pageCount, value))
       IN  customRanges' = [k \in 1..Len(customRanges) |->
               IF customRanges[k].id = id
               THEN IF field = "start" THEN [customRanges[k] EXCEPT !.start = clamped]
                                       ELSE [customRanges[k] EXCEPT !.end = clamped]
               ELSE customRanges[k]]

RECURSIVE FilterOutRange(_, _)
FilterOutRange(ranges, id) ==
    IF ranges = <<>> THEN <<>>
    ELSE (IF Head(ranges).id # id THEN <<Head(ranges)>> ELSE <<>>)
         \o FilterOutRange(Tail(ranges), id)

\* the Remove button of a range, rendered while there is more than one range
\* a range editing run calls removeRange on a single range as well
RemoveRange(id) ==
    /\ InRangeEditor
    /\ NoDownloadStep
    /\ OptionsShown /\ splitMode = "custom"
    /\ ui = "RangeEditing" \/ Len(customRanges) > 1
    /\ \E k \in 1..Len(customRanges) : customRanges[k].id = id
    /\ customRanges' = IF Len(customRanges) > 1 THEN FilterOutRange(customRanges, id)
                       ELSE customRanges
    /\ UNCHANGED <<pdfFile, pageCount, splitMode, isSplitting, isSplit, splitAwait,
                   rangeSizeValue, splitStart>>

\* handleSplit up to its await
HandleSplit ==
    /\ InSplitter
    /\ NoDownloadStep
    /\ SplitButtonShown /\ ~SplitDisabled
    /\ isSplitting' = TRUE
    /\ splitAwait' = splitAwait + 1
    /\ splitStart' = [mode |-> splitMode, size |-> rangeSizeValue, current |-> TRUE]
    /\ UNCHANGED <<pdfFile, pageCount, splitMode, customRanges, isSplit, rangeSizeValue>>

\* handleSplit after its await
SplitDone ==
    /\ InSplitter
    /\ NoDownloadStep
    /\ splitAwait > 0
    /\ splitAwait' = splitAwait - 1
    /\ isSplitting' = FALSE
    /\ isSplit' = TRUE
    /\ UNCHANGED <<pdfFile, pageCount, splitMode, customRanges, rangeSizeValue,
                   splitStart>>

HandleDownloadSplitFiles ==
    /\ InSplitter
    /\ DownloadAllShown
    /\ LET fileCount == FileCount(splitMode, pageCount, rangeSizeValue, customRanges)
       IN  IF LoopReturns(fileCount)
           THEN /\ splitDownloads' = [i \in 1..LoopRuns(fileCount) |-> i]
                /\ downloadRan' = TRUE
                /\ UNCHANGED hung
           ELSE /\ splitDownloads' = <<>>
                /\ downloadRan' = FALSE
                /\ hung' = TRUE
    /\ UNCHANGED <<pdfFile, pageCount, splitMode, customRanges, isSplitting, isSplit,
                   splitAwait, rangeSizeValue, splitStart>>

(***************************************************************************)
(* The page script, split section, and the split part of the session.      *)
(***************************************************************************)
NoInfo == [pages |-> 0]
NoText == [text |-> "", numFiles |-> Num(0), each |-> Num(0)]
NoRequest == [mode |-> "none", size |-> NaN, ranges |-> <<>>, pages |-> 0]
\* what the user can have typed into the start or end input of a custom range
CustomRangeInputs == {<<>>, <<"0">>, <<"2">>, <<"7">>}
\* what the user can have typed into pages-per-file
PagesPerFileInputs == {<<>>, <<"0">>, <<"4">>, <<"-", "1">>}
\* selections of split-file-input
SplitInputFiles == {<<>>, <<"a.pdf">>, <<"n.txt">>}

\* updateSplitMode(): the text it leaves in split-mode-info
UpdateSplitModeInfo(mode, info, sizeValue, oldText) ==
    IF info = NoInfo THEN oldText
    ELSE IF mode = "individual"
         THEN [text |-> "Each page will be saved as a separate PDF file",
               numFiles |-> Num(info.pages), each |-> Num(1)]
    ELSE IF mode = "ranges"
         THEN LET pagesPerFile == NumOrDefault(ParseInt(sizeValue), Num(2))
                  numFiles == CeilDiv(info.pages, pagesPerFile)
              IN  [text |-> "Will create", numFiles |-> numFiles, each |-> pagesPerFile]
    ELSE [text |-> "Specify page ranges to extract:", numFiles |-> Num(0), each |-> Num(0)]

\* updateSplitMode() as a step: the three elements it writes
UpdateSplitMode(mode, info, sizeValue) ==
    /\ splitModeInfo' = UpdateSplitModeInfo(mode, info, sizeValue, splitModeInfo)
    /\ rangesInputShown' = (info # NoInfo /\ mode = "ranges")
    /\ customRangesShown' = (info # NoInfo /\ mode = "custom")

\* the consecutive chunks of k pages of the pages start..n, the last one shorter
RECURSIVE ChunkPlan(_, _, _)
ChunkPlan(start, n, k) ==
    IF start > n THEN <<>>
    ELSE <<[start |-> start, end |-> Min(start + k - 1, n)]>> \o ChunkPlan(start + k, n, k)

IndividualPlan(n) == [i \in 1..n |-> [start |-> i, end |-> i]]
PlanSizes(plan) == [i \in 1..Len(plan) |-> plan[i].end - plan[i].start + 1]
\* a bound that is not a number, which JSON carries as null, satisfies nothing
RangeValid(r, n) ==
    /\ r.start.kind = "num" /\ r.end.kind = "num"
    /\ 1 <= r.start.v /\ r.start.v <= r.end.v /\ r.end.v <= n
ChunkSizeValid(k) == k.kind = "num" /\ k.v >= 1

\* one request of the split section is on its way at a time
SplitRequest(kind, file, mode, size, ranges) ==
    [rid |-> 0, kind |-> kind, file |-> file, mode |-> mode, size |-> size,
     ranges |-> ranges]
SplitReply(req, success, pages, files, error) ==
    [rid |-> req.rid, kind |-> req.kind, success |-> success, pages |-> pages,
     files |-> files, error |-> error, mode |-> req.mode, size |-> req.size,
     ranges |-> req.ranges]

InScriptSplit ==
    /\ \/ ui = "ScriptSplit" /\ UNCHANGED callVars
       \/ TabsRun /\ UNCHANGED hOrig
    /\ UNCHANGED <<ui, uploadVars, convertVars, mergerVars, mergeSectionVars, splitterVars>>
\* splitPDF() and the server behind it, which a custom split run drives as well
InSplitProcess ==
    /\ \/ ui \in {"ScriptSplit", "CustomSplit"} /\ UNCHANGED callVars
       \/ TabsRun /\ UNCHANGED hOrig
    /\ UNCHANGED <<ui, uploadVars, convertVars, mergerVars, mergeSectionVars, splitterVars>>
\* the handlers of the custom ranges: a custom split run counts them and ends
\* after MaxEdits of them
InCustomRanges ==
    /\ \/ ui = "ScriptSplit" /\ UNCHANGED callVars
       \/ /\ ui = "CustomSplit"
          /\ hStep < MaxEdits
          /\ hStep' = hStep + 1
          /\ UNCHANGED <<hOrig, hFrom, hTo>>
       \/ TabsRun /\ UNCHANGED hOrig
    /\ UNCHANGED <<ui, uploadVars, convertVars, mergerVars, mergeSectionVars, splitterVars>>
\* a step of the server changes nothing in the page
ServerSplitFrame ==
    /\ shownError' = NoError
    /\ UNCHANGED <<splitFileInfo, splitModeChecked, pagesPerFileValue, scriptRanges,
                   splitModeInfo, rangesInputShown, customRangesShown,
                   splitContainerShown, splitResultShown, splitFilesList,
                   splitResultFor, loading, nextReq>>

ScriptSplitInit ==
    /\ splitFileInfo = NoInfo
    /\ splitModeChecked = "individual"
    /\ pagesPerFileValue = <<"2">>
    /\ scriptRanges = <<[start |-> Num(1), end |-> Num(1)]>>
    /\ splitModeInfo = NoText
    /\ rangesInputShown = FALSE
    /\ customRangesShown = FALSE
    /\ splitContainerShown = FALSE
    /\ splitResultShown = FALSE
    /\ splitFilesList = <<>>
    /\ sessionSplitPages = 0
    /\ sessionSplitOutputs = <<>>
    /\ splitResultFor = NoRequest

\* the change handler of split-file-input, up to its await
SplitInputChange(files) ==
    /\ InScriptSplit
    /\ ~loading /\ ~splitContainerShown
    /\ IF files = <<>>
       THEN UNCHANGED <<loading, requests>>
       ELSE /\ loading' = TRUE
            /\ requests' = requests \cup
                   {SplitRequest("split/upload", files[1], "none", NaN, <<>>)}
    /\ shownError' = NoError
    /\ UNCHANGED <<responses, nextReq, scriptSplitVars>>

\* POST /split/upload
ServerSplitUpload(q) ==
    /\ InScriptSplit
    /\ q \in requests /\ q.kind = "split/upload"
    /\ requests' = requests \ {q}
    /\ IF FileType(q.file) = PdfType
       THEN \E n \in 1..MaxPages :
               /\ sessionSplitPages' = n
               /\ responses' = responses \cup {SplitReply(q, TRUE, n, <<>>, NoError)}
       ELSE /\ responses' = responses \cup {SplitReply(q, FALSE, 0, <<>>, "InvalidFileKind")}
            /\ UNCHANGED sessionSplitPages
    /\ sessionSplitOutputs' = <<>>
    /\ ServerSplitFrame

\* the change handler of split-file-input, after its await
SplitUploadResponse(r) ==
    /\ InScriptSplit
    /\ r \in responses /\ r.kind = "split/upload"
    /\ responses' = responses \ {r}
    /\ loading' = FALSE
    /\ IF r.success
       THEN /\ splitFileInfo' = [pages |-> r.pages]
            /\ splitContainerShown' = TRUE
            /\ UpdateSplitMode(splitModeChecked, [pages |-> r.pages], pagesPerFileValue)
            /\ splitResultShown' = FALSE
            /\ shownError' = NoError
       ELSE /\ shownError' = r.error
            /\ UNCHANGED <<splitFileInfo, splitContainerShown, splitModeInfo,
                           rangesInputShown, customRangesShown, splitResultShown>>
    /\ UNCHANGED <<requests, nextReq, splitModeChecked, pagesPerFileValue, scriptRanges,
                   splitFilesList, sessionSplitPages, sessionSplitOutputs,
                   splitResultFor>>

\* change of a split-mode radio input
SplitModeChange(mode) ==
    /\ InScriptSplit
    /\ ~loading /\ splitContainerShown
    /\ mode # splitModeChecked
    /\ splitModeChecked' = mode
    /\ UpdateSplitMode(mode, splitFileInfo, pagesPerFileValue)
    /\ shownError' = NoError
    /\ UNCHANGED <<loading, requests, responses, nextReq, splitFileInfo,
                   pagesPerFileValue, scriptRanges, splitContainerShown,
                   splitResultShown, splitFilesList, sessionSplitPages,
                   sessionSplitOutputs, splitResultFor>>

\* input event of pages-per-file
PagesPerFileInput(value) ==
    /\ InScriptSplit
    /\ ~loading /\ splitContainerShown /\ rangesInputShown
    /\ pagesPerFileValue' = value
    /\ UpdateSplitMode(splitModeChecked, splitFileInfo, value)
    /\ shownError' = NoError
    /\ UNCHANGED <<loading, requests, responses, nextReq, splitFileInfo,
                   splitModeChecked, scriptRanges, splitContainerShown,
                   splitResultShown, splitFilesList, sessionSplitPages,
                   sessionSplitOutputs, splitResultFor>>

\* Math.min(lastEnd + 1, pages), for a lastEnd that parseInt can have returned
NewStart(lastEnd, pages) ==
    IF lastEnd.kind = "NaN" THEN NaN
    ELSE IF lastEnd.kind = "-0" THEN Num(Min(1, pages))
    ELSE Num(Min(lastEnd.v + 1, pages))

AddCustomRange ==
    /\ InCustomRanges
    /\ ~loading /\ splitContainerShown /\ customRangesShown
    /\ Len(scriptRanges) < MaxRanges
    /\ LET e == scriptRanges[Len(scriptRanges)].end
       IN  e.kind = "num" => e.v < MaxRangeEnd
    /\ LET lastEnd == IF Len(scriptRanges) > 0 THEN scriptRanges[Len(scriptRanges)].end
                      ELSE Num(0)
           newStart == NewStart(lastEnd, splitFileInfo.pages)
       IN  scriptRanges' = Append(scriptRanges, [start |-> newStart, end |-> newStart])
    /\ shownError' = NoError
    /\ UNCHANGED <<loading, requests, responses, nextReq, splitFileInfo,
                   splitModeChecked, pagesPerFileValue, splitModeInfo, rangesInputShown,
                   customRangesShown, splitContainerShown, splitResultShown,
                   splitFilesList, sessionSplitPages, sessionSplitOutputs,
                   splitResultFor>>

\* onchange of a start or end input: updateCustomRange(index, field, this.value)
UpdateCustomRange(index, field, value) ==
    /\ ui = "CustomSplit"
    /\ InCustomRanges
    /\ ~loading /\ splitContainerShown /\ customRangesShown
    /\ index < Len(scriptRanges)
    /\ scriptRanges' = [scriptRanges EXCEPT ![index + 1] =
           IF field = "start" THEN [@ EXCEPT !.start = ParseInt(value)]
                              ELSE [@ EXCEPT !.end = ParseInt(value)]]
    /\ shownError' = NoError
    /\ UNCHANGED <<loading, requests, responses, nextReq, splitFileInfo,
                   splitModeChecked, pagesPerFileValue, splitModeInfo, rangesInputShown,
                   customRangesShown, splitContainerShown, splitResultShown,
                   splitFilesList, sessionSplitPages, sessionSplitOutputs,
                   splitResultFor>>

\* the Remove button of range index, rendered while there is more than one range
\* a removeCustomRange that would splice whatever the length is
RemoveCustomRangeAlways(index) ==
    /\ InCustomRanges
    /\ ~loading /\ splitContainerShown /\ customRangesShown
    /\ index < Len(scriptRanges)
    /\ scriptRanges' = SpliceRemove1(scriptRanges, index)
    /\ shownError' = NoError
    /\ UNCHANGED <<loading, requests, responses, nextReq, splitFileInfo,
                   splitModeChecked, pagesPerFileValue, splitModeInfo, rangesInputShown,
                   customRangesShown, splitContainerShown, splitResultShown,
                   splitFilesList, sessionSplitPages, sessionSplitOutputs,
                   splitResultFor>>

\* the Remove button of a range, rendered while there is more than one range;
\* a custom split run calls removeCustomRange on a single range as well
RemoveCustomRange(index) ==
    /\ InCustomRanges
    /\ ~loading /\ splitContainerShown /\ customRangesShown
    /\ ui = "CustomSplit" \/ Len(scriptRanges) > 1
    /\ index < Len(scriptRanges)
    /\ scriptRanges' = IF Len(scriptRanges) > 1 THEN SpliceRemove1(scriptRanges, index)
                       ELSE scriptRanges
    /\ shownError' = NoError
    /\ UNCHANGED <<loading, requests, responses, nextReq, splitFileInfo,
                   splitModeChecked, pagesPerFileValue, splitModeInfo, rangesInputShown,
                   customRangesShown, splitContainerShown, splitResultShown,
                   splitFilesList, sessionSplitPages, sessionSplitOutputs,
                   splitResultFor>>

\* splitPDF() up to its await
SplitPDF ==
    /\ InSplitProcess
    /\ ~loading /\ splitContainerShown
    /\ loading' = TRUE
    /\ requests' = requests \cup
           {SplitRequest("split/process", "", splitModeChecked,
                IF splitModeChecked = "ranges" THEN ParseInt(pagesPerFileValue) ELSE NaN,
                IF splitModeChecked = "custom" THEN scriptRanges ELSE <<>>)}
    /\ shownError' = NoError
    /\ UNCHANGED <<responses, nextReq, scriptSplitVars>>

\* POST /split/process.  A pages_per_file that is not a number arrives as null:
\* the server either takes the default of 2 or rejects it.
ServerSplitProcess(q) ==
    /\ InSplitProcess
    /\ q \in requests /\ q.kind = "split/process"
    /\ requests' = requests \ {q}
    /\ \E useDefault \in BOOLEAN :
          LET n == sessionSplitPages
              k == IF q.size.kind = "NaN" /\ useDefault THEN Num(2) ELSE q.size
              fails == \/ n = 0
                       \/ q.mode = "ranges" /\ ~ChunkSizeValid(k)
                       \/ q.mode = "custom" /\
                             \E i \in 1..Len(q.ranges) : ~RangeValid(q.ranges[i], n)
              plan == IF q.mode = "individual" THEN IndividualPlan(n)
                      ELSE IF q.mode = "ranges" THEN ChunkPlan(1, n, k.v)
                      ELSE [i \in 1..Len(q.ranges) |->
                               [start |-> q.ranges[i].start.v, end |-> q.ranges[i].end.v]]
          IN  IF fails
              THEN /\ responses' = responses \cup
                          {SplitReply(q, FALSE, n, <<>>,
                               IF q.mode = "ranges" THEN "InvalidChunkSize"
                                                    ELSE "InvalidRange")}
                   /\ UNCHANGED sessionSplitOutputs
              ELSE /\ sessionSplitOutputs' = plan
                   /\ responses' = responses \cup {SplitReply(q, TRUE, n, plan, NoError)}
    /\ UNCHANGED sessionSplitPages
    /\ ServerSplitFrame

\* a variant that fills and shows split-result whatever data.success is
SplitResponseShowsAlways(r) ==
    /\ InSplitProcess
    /\ r \in responses /\ r.kind = "split/process"
    /\ responses' = responses \ {r}
    /\ loading' = FALSE
    /\ splitFilesList' = r.files
    /\ splitResultShown' = TRUE
    /\ splitResultFor' = [mode |-> r.mode, size |-> r.size, ranges |-> r.ranges,
                          pages |-> r.pages]
    /\ shownError' = IF r.success THEN NoError ELSE r.error
    /\ UNCHANGED <<requests, nextReq, splitFileInfo, splitModeChecked, pagesPerFileValue,
                   scriptRanges, splitModeInfo, rangesInputShown, customRangesShown,
                   splitContainerShown, sessionSplitPages, sessionSplitOutputs>>

\* splitPDF() after its await
SplitResponse(r) ==
    /\ InSplitProcess
    /\ r \in responses /\ r.kind = "split/process"
    /\ responses' = responses \ {r}
    /\ loading' = FALSE
    /\ IF r.success
       THEN /\ splitFilesList' = r.files
            /\ splitResultShown' = TRUE
            /\ splitResultFor' = [mode |-> r.mode, size |-> r.size, ranges |-> r.ranges,
                                  pages |-> r.pages]
            /\ shownError' = NoError
       ELSE /\ shownError' = r.error
            /\ UNCHANGED <<splitFilesList, splitResultShown, splitResultFor>>
    /\ UNCHANGED <<requests, nextReq, splitFileInfo, splitModeChecked, pagesPerFileValue,
                   scriptRanges, splitModeInfo, rangesInputShown, customRangesShown,
                   splitContainerShown, sessionSplitPages, sessionSplitOutputs>>

(***************************************************************************)
(* PdfToEditable (React).  A text is a sequence of characters; the only     *)
(* character that matters to an export is the newline.                      *)
(***************************************************************************)
Newline == "\n"
\* what the textarea can hold after an edit
Texts == SeqsUpTo({"a", Newline}, MaxText)
\* mockExtractedText, cut to two lines
MockExtractedText == <<"S", Newline, "T">>
NoEvent == [op |-> "none"]

\* new Blob([text], { type }): the bytes are the characters of text
Blob(text, format) ==
    [type |-> IF format = "txt" THEN "text/plain"
              ELSE "application/vnd.openxmlformats-officedocument.wordprocessingml.document",
     bytes |-> text]

\* rendering
ExtractShown == convFile # NoFile /\ ~isProcessed
EditorShown == isProcessed /\ extractedText # <<>>

\* hOrig is the list of the texts that the calls of an extraction run have stored
InEditable ==
    /\ ui \in {"PdfToEditable", "ExtractCall"}
    /\ hStep' = 0
    /\ UNCHANGED <<ui, uploadVars, mergerVars, scriptVars, splitVars, scriptConvertVars, hFrom, hTo>>

EditableInit ==
    /\ convFile = NoFile
    /\ extractedText = <<>>
    /\ isProcessing = FALSE
    /\ isProcessed = FALSE
    /\ exportFormat = "txt"
    /\ extractAwait = "none"
    /\ textFor = "none"
    /\ convEvent = NoEvent

\* handleFileSelect(files) of PdfToEditable, also reached by handleDrop
EditableFileSelect(files) ==
    /\ InEditable
    /\ UNCHANGED hOrig
    \* an extraction run: no upload once it has called handleExtract
    /\ ui = "ExtractCall" => (hOrig = <<>> /\ extractAwait = "none")
    /\ IF files # <<>> /\ FileType(files[1]) = PdfType
       THEN /\ convFile' = files[1]
            /\ isProcessed' = FALSE
            /\ extractedText' = <<>>
            /\ extractAwait' = IF extractAwait = "none" THEN "none" ELSE "previous"
            /\ textFor' = "none"
       ELSE UNCHANGED <<convFile, isProcessed, extractedText, extractAwait, textFor>>
    /\ convEvent' = NoEvent
    /\ UNCHANGED <<isProcessing, exportFormat>>

\* handleExtract up to its await
HandleExtract ==
    /\ InEditable
    /\ UNCHANGED hOrig
    \* the Extract Text button, or the second call of an extraction run
    /\ IF ui = "ExtractCall"
       THEN convFile # NoFile /\ extractAwait = "none" /\ Len(hOrig) < 2
       ELSE ExtractShown /\ ~isProcessing
    /\ isProcessing' = TRUE
    /\ extractAwait' = "current"
    /\ convEvent' = NoEvent
    /\ UNCHANGED <<convFile, extractedText, isProcessed, exportFormat, textFor>>

\* a variant that adds the extracted text to the text there is
ExtractDoneAppending ==
    /\ InEditable
    /\ extractAwait # "none"
    /\ extractedText' = extractedText \o MockExtractedText
    /\ isProcessing' = FALSE
    /\ isProcessed' = TRUE
    /\ textFor' = extractAwait
    /\ extractAwait' = "none"
    /\ hOrig' = IF ui = "ExtractCall" THEN Append(hOrig, extractedText') ELSE hOrig
    /\ convEvent' = NoEvent
    /\ UNCHANGED <<convFile, exportFormat>>

\* handleExtract after its await
ExtractDone ==
    /\ InEditable
    /\ extractAwait # "none"
    /\ extractedText' = MockExtractedText
    /\ isProcessing' = FALSE
    /\ isProcessed' = TRUE
    /\ textFor' = extractAwait
    /\ extractAwait' = "none"
    /\ hOrig' = IF ui = "ExtractCall" THEN Append(hOrig, extractedText') ELSE hOrig
    /\ convEvent' = NoEvent
    /\ UNCHANGED <<convFile, exportFormat>>

\* onChange of the textarea: setExtractedText(e.target.value)
EditText(value) ==
    /\ InEditable
    /\ UNCHANGED hOrig
    /\ EditorShown
    /\ extractedText' = value
    /\ convEvent' = [op |-> "edit", value |-> value]
    /\ UNCHANGED <<convFile, isProcessing, isProcessed, exportFormat, extractAwait,
                   textFor>>

\* onChange of an export format radio input
SetExportFormat(format) ==
    /\ InEditable
    /\ UNCHANGED hOrig
    /\ EditorShown
    /\ format # exportFormat
    /\ exportFormat' = format
    /\ convEvent' = NoEvent
    /\ UNCHANGED <<convFile, extractedText, isProcessing, isProcessed, extractAwait,
                   textFor>>

\* a variant that exports the text as it was extracted
HandleEditableDownloadOfMock ==
    /\ InEditable
    /\ UNCHANGED hOrig
    /\ EditorShown
    /\ convEvent' = [op |-> "download", format |-> exportFormat,
                     blob |-> Blob(MockExtractedText, exportFormat)]
    /\ UNCHANGED <<convFile, extractedText, isProcessing, isProcessed, exportFormat,
                   extractAwait, textFor>>

\* handleDownload of PdfToEditable
HandleEditableDownload ==
    /\ InEditable
    /\ UNCHANGED hOrig
    /\ EditorShown
    /\ convEvent' = [op |-> "download", format |-> exportFormat,
                     blob |-> Blob(extractedText, exportFormat)]
    /\ UNCHANGED <<convFile, extractedText, isProcessing, isProcessed, exportFormat,
                   extractAwait, textFor>>

(***************************************************************************)
(* The page script, convert section, and the convert part of the session.  *)
(***************************************************************************)
\* the text the server's PDF library reads from a document
ExtractedTextOf(file) == IF file = "a.pdf" THEN MockExtractedText ELSE <<"U">>

\* the lines of a text: the runs of characters between its line breaks
RECURSIVE SplitLines(_)
SplitLines(text) ==
    IF \A k \in 1..Len(text) : text[k] # Newline THEN <<text>>
    ELSE LET k == CHOOSE i \in 1..Len(text) :
                      text[i] = Newline /\ \A j \in 1..(i - 1) : text[j] # Newline
         IN  <<SubSeq(text, 1, k - 1)>> \o SplitLines(SubSeq(text, k + 1, Len(text)))

\* GET /convert/download/<format>: the text itself, or a document with one
\* paragraph per line
Export(format, text) ==
    IF format = "txt" THEN [type |-> "text/plain", bytes |-> text]
    ELSE [type |-> Blob(<<>>, "docx").type, paragraphs |-> SplitLines(text)]

ConvertRequest(kind, file, text) == [rid |-> 0, kind |-> kind, file |-> file, text |-> text]

InScriptConvert ==
    /\ \/ ui \in {"ScriptConvert", "ExtractTextCall"} /\ UNCHANGED <<hFrom, hTo, hStep>>
       \/ TabsRun
    /\ UNCHANGED <<ui, uploadVars, mergerVars, mergeSectionVars, splitVars, editableVars>>

ScriptConvertInit ==
    /\ convertContainerShown = FALSE
    /\ extractSectionShown = FALSE
    /\ convertEditorShown = FALSE
    /\ textareaValue = <<>>
    /\ textUpdateTimeout = FALSE
    /\ sessionConvFile = NoFile
    /\ sessionText = NoPayload

\* the change handler of convert-file-input, up to its await
ConvertInputChange(files) ==
    /\ InScriptConvert
    /\ UNCHANGED hOrig
    /\ ~loading /\ ~convertContainerShown
    /\ IF files = <<>>
       THEN UNCHANGED <<loading, requests>>
       ELSE /\ loading' = TRUE
            /\ requests' = requests \cup {ConvertRequest("convert/upload", files[1], <<>>)}
    /\ shownError' = NoError
    /\ convEvent' = NoEvent
    /\ UNCHANGED <<responses, nextReq, scriptConvertVars>>

\* the change handler of convert-file-input, after its await
ConvertUploadResponse(r) ==
    /\ InScriptConvert
    /\ UNCHANGED hOrig
    /\ r \in responses /\ r.kind = "convert/upload"
    /\ responses' = responses \ {r}
    /\ loading' = FALSE
    /\ IF r.success
       THEN /\ convertContainerShown' = TRUE
            /\ extractSectionShown' = TRUE
            /\ convertEditorShown' = FALSE
            /\ shownError' = NoError
       ELSE /\ shownError' = r.error
            /\ UNCHANGED <<convertContainerShown, extractSectionShown, convertEditorShown>>
    /\ convEvent' = NoEvent
    /\ UNCHANGED <<requests, nextReq, textareaValue, textUpdateTimeout, sessionConvFile,
                   sessionText>>

\* extractText() up to its await
ExtractText ==
    /\ InScriptConvert
    /\ UNCHANGED hOrig
    /\ ~loading /\ convertContainerShown
    \* the Extract Text button, or the second call of an extraction run
    /\ IF ui = "ExtractTextCall" THEN Len(hOrig) < 2 ELSE extractSectionShown
    /\ loading' = TRUE
    /\ requests' = requests \cup {ConvertRequest("convert/extract", NoFile, <<>>)}
    /\ shownError' = NoError
    /\ convEvent' = NoEvent
    /\ UNCHANGED <<responses, nextReq, scriptConvertVars>>

\* extractText() after its await
ExtractResponse(r) ==
    /\ InScriptConvert
    /\ r \in responses /\ r.kind = "convert/extract"
    /\ responses' = responses \ {r}
    /\ loading' = FALSE
    /\ IF r.success
       THEN /\ textareaValue' = r.text
            /\ extractSectionShown' = FALSE
            /\ convertEditorShown' = TRUE
            /\ shownError' = NoError
            /\ convEvent' = [op |-> "extracted", value |-> r.text]
            /\ hOrig' = IF ui = "ExtractTextCall" THEN Append(hOrig, r.text) ELSE hOrig
       ELSE /\ shownError' = r.error
            /\ UNCHANGED hOrig
            /\ convEvent' = NoEvent
            /\ UNCHANGED <<textareaValue, extractSectionShown, convertEditorShown>>
    /\ UNCHANGED <<requests, nextReq, convertContainerShown, textUpdateTimeout,
                   sessionConvFile, sessionText>>

\* the input handler of extracted-text: the user has changed the textarea, the
\* timer is cleared and set again
TextInput(value) ==
    /\ InScriptConvert
    /\ UNCHANGED hOrig
    /\ ~loading /\ convertContainerShown /\ convertEditorShown
    /\ value # textareaValue
    /\ textareaValue' = value
    /\ textUpdateTimeout' = TRUE
    /\ shownError' = NoError
    /\ convEvent' = [op |-> "edit", value |-> value]
    /\ UNCHANGED <<loading, requests, responses, nextReq, convertContainerShown,
                   extractSectionShown, convertEditorShown, sessionConvFile, sessionText>>

\* the timer fires, 1000 ms after the last input event: the value the textarea
\* holds now is posted to /convert/update-text
TextUpdateTimer ==
    /\ InScriptConvert
    /\ UNCHANGED hOrig
    /\ textUpdateTimeout
    /\ Cardinality({q \in requests : q.kind = "convert/update-text"}) < MaxUpdates
    /\ textUpdateTimeout' = FALSE
    /\ requests' = requests \cup {ConvertRequest("convert/update-text", NoFile, textareaValue)}
    /\ shownError' = NoError
    /\ convEvent' = NoEvent
    /\ UNCHANGED <<loading, responses, nextReq, convertContainerShown, extractSectionShown,
                   convertEditorShown, textareaValue, sessionConvFile, sessionText>>

\* downloadConverted(): the browser fetches /convert/download/<format>, format being
\* the checked export-format radio input
DownloadConverted(format) ==
    /\ InScriptConvert
    /\ UNCHANGED hOrig
    /\ ~loading /\ convertContainerShown /\ convertEditorShown
    /\ sessionText # NoPayload
    /\ convEvent' = [op |-> "download", format |-> format,
                     blob |-> Export(format, sessionText), editor |-> textareaValue]
    /\ shownError' = NoError
    /\ UNCHANGED <<loading, requests, responses, nextReq, scriptConvertVars>>

\* the server: POST /convert/upload, /convert/extract and /convert/update-text
ServerConvert(q) ==
    /\ InScriptConvert
    /\ UNCHANGED hOrig
    /\ q \in requests
    /\ q.kind \in {"convert/upload", "convert/extract", "convert/update-text"}
    /\ requests' = requests \ {q}
    /\ CASE q.kind = "convert/upload" ->
              IF FileType(q.file) = PdfType
              THEN /\ sessionConvFile' = q.file
                   /\ sessionText' = NoPayload
                   /\ responses' = responses \cup
                          {[kind |-> q.kind, success |-> TRUE, text |-> <<>>, error |-> NoError]}
              ELSE /\ responses' = responses \cup
                          {[kind |-> q.kind, success |-> FALSE, text |-> <<>>,
                            error |-> "InvalidFileKind"]}
                   /\ UNCHANGED <<sessionConvFile, sessionText>>
         [] q.kind = "convert/extract" ->
              /\ sessionText' = ExtractedTextOf(sessionConvFile)
              /\ responses' = responses \cup
                     {[kind |-> q.kind, success |-> TRUE,
                       text |-> ExtractedTextOf(sessionConvFile), error |-> NoError]}
              /\ UNCHANGED sessionConvFile
         [] q.kind = "convert/update-text" ->
              /\ sessionText' = q.text
              /\ UNCHANGED <<sessionConvFile, responses>>
    /\ shownError' = NoError
    /\ convEvent' = NoEvent
    /\ UNCHANGED <<loading, nextReq, convertContainerShown, extractSectionShown,
                   convertEditorShown, textareaValue, textUpdateTimeout>>

(***************************************************************************)
(* The reorder functions called on given arguments: movePdf (PdfMerger)    *)
(* and moveFile (script), each on a list of distinct entries and with any  *)
(* pair of indices, then called back with the indices exchanged.           *)
(***************************************************************************)
CallIndices == -1..(MaxLen + 1)
PdfList(n) == [k \in 1..n |-> [id |-> k, file |-> "a.pdf"]]
NameList(n) == SubSeq(<<"a.pdf", "b.pdf", "c.pdf", "d.pdf", "e.pdf">>, 1, Min(n, 5))

CallIdle == hOrig = <<>> /\ hFrom = 0 /\ hTo = 0 /\ hStep = 0

\* PdfMerger showing n files
MovePdfCallInit(n) ==
    /\ pdfFiles = PdfList(n)
    /\ closureFiles = PdfList(n)
    /\ isMerged = FALSE /\ isMerging = FALSE /\ mergeAwait = 0
    /\ dragItem = NoDrag
    /\ nextId = n + 1
    /\ lastDownload = NoPayload
    /\ mergeStartList = <<>>
    /\ removedIds = {}
    /\ hOrig = PdfList(n)

\* the script showing n uploaded files
MoveFileCallInit(n) ==
    /\ mergeFiles = NameList(n)
    /\ sessionFiles = NameList(n)
    /\ insertion = NameList(n)
    /\ shownCount = n /\ shownItems = n
    /\ mergeContainerShown = (n > 0)
    /\ mergeResultShown = FALSE /\ loading = FALSE
    /\ shownError = NoError /\ scriptDownload = NoPayload
    /\ requests = {} /\ responses = {} /\ nextReq = 1
    /\ sessionOutput = NoPayload
    /\ clearedSinceUpload = FALSE
    /\ hOrig = NameList(n)

\* PdfSplitter after a PDF was selected and the custom mode chosen
\* the page after a.pdf and b.pdf were uploaded and merged in the merge section
\* and a.pdf was uploaded and extracted in the convert section
ScriptTabsInit ==
    /\ mergeFiles = <<"a.pdf", "b.pdf">>
    /\ shownCount = 2
    /\ shownItems = 2
    /\ mergeResultShown = TRUE
    /\ mergeContainerShown = TRUE
    /\ loading = FALSE
    /\ shownError = NoError
    /\ scriptDownload = NoPayload
    /\ requests = {}
    /\ responses = {}
    /\ nextReq = 3
    /\ sessionFiles = <<"a.pdf", "b.pdf">>
    /\ sessionOutput = ConcatPages(<<"a.pdf", "b.pdf">>)
    /\ insertion = <<"a.pdf", "b.pdf">>
    /\ clearedSinceUpload = FALSE
    /\ convertContainerShown = TRUE
    /\ extractSectionShown = FALSE
    /\ convertEditorShown = TRUE
    /\ textareaValue = ExtractedTextOf("a.pdf")
    /\ textUpdateTimeout = FALSE
    /\ sessionConvFile = "a.pdf"
    /\ sessionText = ExtractedTextOf("a.pdf")

RangeEditingInit ==
    /\ pdfFile = "a.pdf"
    /\ pageCount \in RandomPageCounts
    /\ splitMode = "custom"
    /\ customRanges = <<[id |-> 1, start |-> 1, end |-> 1]>>
    /\ isSplitting = FALSE /\ isSplit = FALSE /\ splitAwait = 0
    /\ rangeSizeValue = <<>>
    /\ splitDownloads = <<>> /\ downloadRan = FALSE /\ hung = FALSE
    /\ splitStart = NoStart

\* the script after the upload of a 5-page PDF, with the custom mode checked
CustomSplitInit ==
    /\ splitFileInfo = [pages |-> 5]
    /\ sessionSplitPages = 5
    /\ splitModeChecked = "custom"
    /\ pagesPerFileValue = <<"2">>
    /\ scriptRanges = <<[start |-> Num(1), end |-> Num(1)]>>
    /\ splitModeInfo = UpdateSplitModeInfo("custom", [pages |-> 5], <<"2">>, NoText)
    /\ rangesInputShown = FALSE
    /\ customRangesShown = TRUE
    /\ splitContainerShown = TRUE
    /\ splitResultShown = FALSE
    /\ splitFilesList = <<>>
    /\ sessionSplitOutputs = <<>>
    /\ splitResultFor = NoRequest

\* movePdf(hFrom, hTo), then movePdf(hTo, hFrom)
CallMovePdf ==
    /\ ui = "MovePdfCall"
    /\ hStep < 2
    /\ IF hStep = 0 THEN MovePdf(hFrom, hTo) ELSE MovePdf(hTo, hFrom)
    /\ hStep' = hStep + 1
    /\ lastDownload' = NoPayload
    /\ UNCHANGED <<isMerging, mergeAwait, dragItem, nextId, mergeStartList, removedIds>>
    /\ UNCHANGED <<ui, uploadVars, convertVars, scriptVars, splitVars, hOrig, hFrom, hTo>>

\* moveFile(hFrom, hTo), then, once that call has returned, moveFile(hTo, hFrom)
CallMoveFile ==
    /\ ui = "MoveFileCall"
    /\ hStep < 2
    /\ requests = {} /\ responses = {}
    /\ IF hStep = 0 THEN MoveFileCall(hFrom, hTo) ELSE MoveFileCall(hTo, hFrom)
    /\ hStep' = hStep + 1
    /\ UNCHANGED <<ui, uploadVars, convertVars, mergerVars, splitVars, hOrig, hFrom, hTo>>

(***************************************************************************)
(* The page script: the progress bar of uploadFilesWithProgress.           *)
(***************************************************************************)
\* no upload was started: the bar is hidden as the page loads it
UploadIdle ==
    /\ progressDisplay = "none" /\ progressPercent = 0
    /\ simulatedProgress = 10 /\ simulationInterval = FALSE
    /\ hideTimeout = FALSE /\ xhrState = "unsent"
    /\ uploadTotal = 1 /\ uploadLoaded = 0

InUpload ==
    /\ ui = "UploadProgress"
    /\ UNCHANGED <<ui, mergerVars, scriptVars, callVars, splitVars, convertVars>>

\* values of Math.random() * 30
RandomSteps == {0, 15, 29}

\* Math.round((loaded / total) * 100)
RoundPercent(loaded, total) == (200 * loaded + total) \div (2 * total)

\* uploadFilesWithProgress up to xhr.send, of an upload of total units, made
\* when no earlier upload of the section is on its way or on display
UploadStart(total) ==
    /\ InUpload
    /\ xhrState # "sending" /\ ~hideTimeout
    /\ progressDisplay' = "block"
    /\ progressPercent' = 0
    /\ simulatedProgress' = 10
    /\ simulationInterval' = TRUE
    /\ xhrState' = "sending"
    /\ uploadTotal' = total
    /\ uploadLoaded' = 0
    /\ UNCHANGED hideTimeout

\* the callback of setInterval, every 200 ms while the timer is set
SimulationTick(random) ==
    /\ InUpload
    /\ simulationInterval
    /\ IF simulatedProgress < 90
       THEN /\ simulatedProgress' = Min(simulatedProgress + random, 90)
            /\ progressPercent' = simulatedProgress'
       ELSE UNCHANGED <<simulatedProgress, progressPercent>>
    /\ UNCHANGED <<progressDisplay, simulationInterval, hideTimeout, xhrState,
                   uploadTotal, uploadLoaded>>

\* the progress listener of xhr.upload, for an event with e.loaded = loaded
UploadProgressEvent(loaded, lengthComputable) ==
    /\ InUpload
    /\ xhrState = "sending"
    /\ loaded >= uploadLoaded /\ loaded <= uploadTotal
    /\ IF lengthComputable
       THEN /\ progressPercent' = Max(simulatedProgress, RoundPercent(loaded, uploadTotal))
            /\ uploadLoaded' = loaded
       ELSE UNCHANGED <<progressPercent, uploadLoaded>>
    /\ UNCHANGED <<progressDisplay, simulatedProgress, simulationInterval, hideTimeout,
                   xhrState, uploadTotal>>

\* the load listener of xhr, up to setTimeout
UploadLoad ==
    /\ InUpload
    /\ xhrState = "sending"
    /\ simulationInterval' = FALSE
    /\ progressPercent' = 100
    /\ hideTimeout' = TRUE
    /\ xhrState' = "done"
    /\ UNCHANGED <<progressDisplay, simulatedProgress, uploadTotal, uploadLoaded>>

\* the error listener and the abort listener of xhr
UploadErrorOrAbort ==
    /\ InUpload
    /\ xhrState = "sending"
    /\ simulationInterval' = FALSE
    /\ progressDisplay' = "none"
    /\ xhrState' = "done"
    /\ UNCHANGED <<progressPercent, simulatedProgress, hideTimeout, uploadTotal,
                   uploadLoaded>>

\* the callback of the load listener's setTimeout
HideProgress ==
    /\ InUpload
    /\ hideTimeout
    /\ hideTimeout' = FALSE
    /\ progressDisplay' = "none"
    /\ UNCHANGED <<progressPercent, simulatedProgress, simulationInterval, xhrState,
                   uploadTotal, uploadLoaded>>

(***************************************************************************)
(* The specification: a run is of one front end.                           *)
(***************************************************************************)
\* a run of clicks on the arrow buttons of the script's list, at most MaxEdits
\* of them, not waiting for the responses: hOrig is the list the run started
\* with, the reorders requested so far applied to it in the order of the clicks
ClickMoveFile(fromIndex, toIndex) ==
    /\ ui = "ReorderRun"
    /\ hStep < MaxEdits
    /\ ~loading /\ mergeContainerShown
    /\ fromIndex \in 0..(shownItems - 1)
    /\ \/ toIndex = fromIndex - 1 /\ fromIndex # 0
       \/ toIndex = fromIndex + 1 /\ fromIndex # shownCount - 1
    /\ MoveFileCall(fromIndex, toIndex)
    /\ hStep' = hStep + 1
    /\ hOrig' = IF MoveFileRejected(fromIndex, toIndex) THEN hOrig
                ELSE SessionReorder(hOrig, fromIndex, toIndex)
    /\ UNCHANGED <<ui, uploadVars, convertVars, mergerVars, splitVars, hFrom, hTo>>

\* App: onClick of a tab button, setActiveTab(tab.id). Only the component of the
\* active tab is rendered: the one of the tab left is unmounted and its state
\* discarded, the one of the new tab is mounted with the initial values of its
\* useState hooks. A click on the active tab changes nothing. hStep is 1 in
\* the state right after a switch that left a tab with a file in it.
TabComponents == {"PdfMerger", "PdfSplitter", "PdfToEditable"}
SetActiveTab(tab) ==
    /\ ui \in TabComponents /\ ~hung
    /\ tab \in TabComponents /\ tab # ui
    /\ ui' = tab
    /\ UNCHANGED uploadVars
    \* PdfMerger, unmounted or mounted anew
    /\ pdfFiles' = <<>> /\ isMerged' = FALSE /\ isMerging' = FALSE /\ mergeAwait' = 0
    /\ closureFiles' = <<>> /\ dragItem' = NoDrag /\ nextId' = 1
    /\ lastDownload' = NoPayload /\ mergeStartList' = <<>> /\ removedIds' = {}
    \* PdfSplitter
    /\ pdfFile' = NoFile /\ pageCount' = 10 /\ splitMode' = "individual"
    /\ customRanges' = <<[id |-> 1, start |-> 1, end |-> 1]>>
    /\ isSplitting' = FALSE /\ isSplit' = FALSE /\ splitAwait' = 0
    /\ rangeSizeValue' = <<>> /\ splitDownloads' = <<>> /\ downloadRan' = FALSE
    /\ hung' = FALSE /\ splitStart' = NoStart
    \* PdfToEditable
    /\ convFile' = NoFile /\ extractedText' = <<>> /\ isProcessing' = FALSE
    /\ isProcessed' = FALSE /\ exportFormat' = "txt" /\ extractAwait' = "none"
    /\ textFor' = "none" /\ convEvent' = NoEvent
    /\ hStep' = IF \/ ui = "PdfMerger" /\ pdfFiles # <<>>
                   \/ ui = "PdfSplitter" /\ pdfFile # NoFile
                   \/ ui = "PdfToEditable" /\ convFile # NoFile
                THEN 1 ELSE 0
    /\ UNCHANGED <<scriptVars, hOrig, hFrom, hTo, scriptSplitVars, scriptConvertVars>>

Init ==
    \/ /\ ui \in {"PdfMerger", "ScriptMerge", "PdfSplitter", "ScriptSplit", "PdfToEditable",
                 "ScriptConvert", "ExtractCall", "ExtractTextCall", "UploadProgress"}
       /\ UploadIdle
       /\ MergerInit /\ ScriptInit /\ CallIdle /\ SplitterInit /\ ScriptSplitInit
       /\ EditableInit /\ ScriptConvertInit
    \/ /\ ui = "MovePdfCall"
       /\ UploadIdle
       /\ \E n \in 0..MaxLen : MovePdfCallInit(n)
       /\ hFrom \in CallIndices /\ hTo \in CallIndices /\ hStep = 0
       /\ ScriptInit /\ SplitterInit /\ ScriptSplitInit /\ EditableInit /\ ScriptConvertInit
    \/ /\ ui = "MoveFileCall"
       /\ UploadIdle
       /\ \E n \in 0..MaxLen : MoveFileCallInit(n)
       /\ hFrom \in CallIndices /\ hTo \in CallIndices /\ hStep = 0
       /\ MergerInit /\ SplitterInit /\ ScriptSplitInit /\ EditableInit /\ ScriptConvertInit
    \/ /\ ui = "ReorderRun"
       /\ UploadIdle
       /\ \E n \in 2..MaxLen : MoveFileCallInit(n)
       /\ hFrom = 0 /\ hTo = 0 /\ hStep = 0
       /\ MergerInit /\ SplitterInit /\ ScriptSplitInit /\ EditableInit /\ ScriptConvertInit
    \/ /\ ui = "RangeEditing"
       /\ UploadIdle
       /\ RangeEditingInit
       /\ CallIdle
       /\ MergerInit /\ ScriptInit /\ ScriptSplitInit /\ EditableInit /\ ScriptConvertInit
    \/ /\ ui = "CustomSplit"
       /\ UploadIdle
       /\ CustomSplitInit
       /\ CallIdle
       /\ MergerInit /\ ScriptInit /\ SplitterInit /\ EditableInit /\ ScriptConvertInit
    \/ /\ ui = "ScriptTabs"
       /\ UploadIdle
       /\ ScriptTabsInit /\ CustomSplitInit
       /\ CallIdle
       /\ MergerInit /\ SplitterInit /\ EditableInit

Next ==
    \/ \E tab \in TabComponents : SetActiveTab(tab)
    \/ \E fromIndex \in 0..(MaxLen - 1), toIndex \in 0..(MaxLen - 1) :
           ClickMoveFile(fromIndex, toIndex)
    \/ \E files \in SeqsUpTo(MergerFiles, MaxSelect) : HandleFileSelect(files)
    \/ \E id \in 1..MaxIds : RemovePdf(id)
    \/ \E index \in 0..(MaxIds - 1) : DragBegin(index)
    \/ \E index \in 0..(MaxIds - 1) : Hover(index)
    \/ DragEnd
    \/ HandleMerge
    \/ MergeDone
    \/ HandleDownload
    \/ \E files \in MergeSelections : MergeInputChange(files)
    \/ \E r \in responses : UploadResponse(r)
    \/ \E fromIndex \in 0..(MaxList - 1), toIndex \in -1..MaxList : MoveFile(fromIndex, toIndex)
    \/ \E r \in responses : MoveFileResponse(r)
    \/ MergePDFs
    \/ \E r \in responses : MergeResponse(r)
    \/ DownloadMerged
    \/ ClearMergeFiles
    \/ \E q \in requests : ServerUpload(q)
    \/ \E q \in requests : ServerReorder(q)
    \/ \E q \in requests : ServerProcess(q)
    \/ \E q \in requests : ServerClear(q)
    \/ CallMovePdf
    \/ CallMoveFile
    \/ \E q \in requests, outcome \in {"2xx-nonjson", "non2xx-json", "non2xx-empty",
                                        "non2xx-nonjson", "network-error", "abort"} :
          UploadFailure(q, outcome)
    \/ \E files \in SplitSelections : SplitterFileSelect(files)
    \/ \E mode \in SplitModes : SetSplitMode(mode)
    \/ \E value \in SizeInputs : TypeRangeSize(value)
    \/ AddRange
    \/ \E id \in CustomRangeIds, field \in {"start", "end"}, typed \in RangeInputs :
          UpdateRange(id, field, typed)
    \/ \E id \in CustomRangeIds : RemoveRange(id)
    \/ HandleSplit
    \/ SplitDone
    \/ HandleDownloadSplitFiles
    \/ \E files \in SplitInputFiles : SplitInputChange(files)
    \/ \E r \in responses : SplitUploadResponse(r)
    \/ \E mode \in SplitModes : SplitModeChange(mode)
    \/ \E value \in PagesPerFileInputs : PagesPerFileInput(value)
    \/ AddCustomRange
    \/ \E index \in 0..(MaxRanges - 1), field \in {"start", "end"},
             value \in CustomRangeInputs : UpdateCustomRange(index, field, value)
    \/ \E index \in 0..(MaxRanges - 1) : RemoveCustomRange(index)
    \/ SplitPDF
    \/ \E files \in SplitSelections : EditableFileSelect(files)
    \/ HandleExtract
    \/ ExtractDone
    \/ \E value \in Texts : EditText(value)
    \/ \E format \in {"txt", "docx"} : SetExportFormat(format)
    \/ HandleEditableDownload
    \/ \E files \in SplitInputFiles : ConvertInputChange(files)
    \/ \E r \in responses : ConvertUploadResponse(r)
    \/ ExtractText
    \/ \E r \in responses : ExtractResponse(r)
    \/ \E value \in {<<>>, <<"a">>, <<"a", Newline, "a">>} : TextInput(value)
    \/ TextUpdateTimer
    \/ \E format \in {"txt", "docx"} : DownloadConverted(format)
    \/ \E q \in requests : ServerConvert(q)
    \/ \E r \in responses : SplitResponse(r)
    \/ \E q \in requests : ServerSplitUpload(q)
    \/ \E q \in requests : ServerSplitProcess(q)
    \/ \E total \in 1..MaxBytes : UploadStart(total)
    \/ \E random \in RandomSteps : SimulationTick(random)
    \/ \E loaded \in 0..MaxBytes, lengthComputable \in BOOLEAN :
          UploadProgressEvent(loaded, lengthComputable)
    \/ UploadLoad
    \/ UploadErrorOrAbort
    \/ HideProgress

Spec == Init /\ [][Next]_vars

\* every handler, timer and request that can run does run in the end
FairSpec == Spec /\ WF_vars(Next)

(***************************************************************************)
(* Properties.                                                             *)
(***************************************************************************)
FilesOf(list) == [k \in 1..Len(list) |-> list[k].file]
Count(list, x) == Cardinality({k \in 1..Len(list) : list[k] = x})
IsPermutation(a, b) ==
    Len(a) = Len(b) /\ \A x \in Range(a) \cup Range(b) : Count(a, x) = Count(b, x)
NoMessages == requests = {} /\ responses = {}
BothInRange == InRange(hOrig, hFrom) /\ InRange(hOrig, hTo)

\* C1: in PdfMerger, whenever isMerged is true the list is the same files in the
\* same order as when the merge that set it was started (every change of the list,
\* also one made while the merge is in progress, invalidates the flag).
C1_MergedListIsStartList ==
    (ui = "PdfMerger" /\ isMerged) => pdfFiles = mergeStartList
\* a merge completed after the list was changed under it
C1_StaleMerged ==
    ui = "PdfMerger" /\ isMerged /\ pdfFiles # mergeStartList

\* C2: a merge is never started with fewer than 2 files: PdfMerger's handleMerge
\* starts only with pdfFiles.length >= 2 and no merge in progress; the script sends
\* /merge/process only with mergeFiles.length >= 2, and mergePDFs() with fewer
\* files alerts an error, sends nothing and shows no merge result.
C2_MergeNeedsTwoFiles ==
    [][ /\ (mergeAwait' > mergeAwait) => (Len(pdfFiles) >= 2 /\ ~isMerging)
        /\ (\E q \in requests' \ requests : q.kind = "process") => Len(mergeFiles) >= 2
        /\ (MergePDFs /\ Len(mergeFiles) < 2) =>
               /\ shownError' = "Need at least 2 files to merge"
               /\ UNCHANGED <<requests, mergeResultShown, loading>>
      ]_vars
\* mergePDFs() has just refused a list of one file
C2_Witness ==
    /\ ui = "ScriptMerge" /\ Len(mergeFiles) = 1
    /\ shownError = "Need at least 2 files to merge"
    /\ \A q \in requests : q.kind # "process"

\* C3: the output of a merge is the pages of the listed documents, concatenated in
\* the list's order, so its page count is the sum of theirs: what PdfMerger's
\* handleDownload delivers, and what the session holds after /merge/process.
C3_MergeOutputIsConcatenation ==
    /\ (ui = "PdfMerger" /\ lastDownload # NoPayload) =>
           /\ lastDownload = ConcatPages(FilesOf(pdfFiles))
           /\ Len(lastDownload) = SumPages(FilesOf(pdfFiles))
    /\ (ui = "ScriptMerge" /\ sessionOutput # NoPayload) =>
           /\ sessionOutput = ConcatPages(sessionFiles)
           /\ Len(sessionOutput) = SumPages(sessionFiles)
\* handleDownload delivered its fixed payload for a list of two documents
C3_FixedPayload ==
    /\ ui = "PdfMerger" /\ Len(pdfFiles) = 2 /\ lastDownload = MergedBlob
    /\ lastDownload # ConcatPages(FilesOf(pdfFiles))

\* C4: for distinct indices i, j inside the list, reorder(i, j) changes the order
\* and reorder(j, i) after it restores the original order, for movePdf and for
\* moveFile.
C4_ReorderBackRestores ==
    (hFrom # hTo /\ BothInRange /\ NoMessages) =>
        /\ (ui = "MovePdfCall" /\ hStep = 1) => pdfFiles # hOrig
        /\ (ui = "MovePdfCall" /\ hStep = 2) => pdfFiles = hOrig
        /\ (ui = "MoveFileCall" /\ hStep = 1) => mergeFiles # hOrig
        /\ (ui = "MoveFileCall" /\ hStep = 2) => mergeFiles = hOrig
\* movePdf(0, 2) then movePdf(2, 0) on three files
C4_Witness ==
    /\ ui = "MovePdfCall" /\ hStep = 2 /\ Len(hOrig) = 3
    /\ hFrom = 0 /\ hTo = 2 /\ pdfFiles = hOrig

\* C5: a reorder with an index outside [0, length) leaves the list unchanged, and
\* one with equal indices is a no-op; moveFile issues no request for either.
C5_BadReorderChangesNothing ==
    (hStep = 1 /\ (~BothInRange \/ hFrom = hTo)) =>
        /\ ui = "MovePdfCall" => pdfFiles = hOrig
        /\ ui = "MoveFileCall" => (mergeFiles = hOrig /\ nextReq = 1)
\* moveFile sent a request for a fromIndex outside the list
C5_RequestForBadIndex ==
    /\ ui = "MoveFileCall" /\ hStep = 1 /\ ~InRange(hOrig, hFrom)
    /\ \E q \in requests : q.kind = "reorder" /\ q.from = hFrom

\* C6: the merge list is a permutation of the files added and not removed: no
\* entry is dropped, duplicated or inserted (no undefined entry).
C6_ListIsPermutation ==
    /\ ui = "PdfMerger" =>
           /\ \A k \in 1..Len(pdfFiles) : pdfFiles[k] # UndefinedEntry
           /\ \A k, l \in 1..Len(pdfFiles) : pdfFiles[k].id = pdfFiles[l].id => k = l
           /\ {pdfFiles[k].id : k \in 1..Len(pdfFiles)} = (1..(nextId - 1)) \ removedIds
    /\ ui = "ScriptMerge" => IsPermutation(mergeFiles, insertion)
\* the list holds an undefined entry
C6_UndefinedEntry ==
    ui = "ScriptMerge" /\ \E k \in 1..Len(mergeFiles) : mergeFiles[k] = Undefined

\* C7: an add appends exactly the entries passing the PDF check, in selection
\* order, after the existing entries; a selection with no valid file appends
\* nothing and changes nothing else of the merge state.
C7_AddAppendsValidOnly ==
    [][ /\ \A files \in SeqsUpTo(MergerFiles, MaxSelect) :
               HandleFileSelect(files) =>
                   /\ Len(pdfFiles') >= Len(pdfFiles)
                   /\ SubSeq(pdfFiles', 1, Len(pdfFiles)) = pdfFiles
                   /\ FilesOf(SubSeq(pdfFiles', Len(pdfFiles) + 1, Len(pdfFiles')))
                          = AcceptedFiles(files)
                   /\ AcceptedFiles(files) = <<>> =>
                          UNCHANGED <<pdfFiles, isMerged, isMerging>>
        /\ \A r \in responses :
               (UploadResponse(r) /\ r.success) => mergeFiles' = mergeFiles \o r.files
      ]_vars

\* C8: after clearMergeFiles the list is empty and stays empty until the next
\* successful upload response is applied.
C8_ClearedListStaysEmpty ==
    (ui = "ScriptMerge" /\ clearedSinceUpload) => mergeFiles = <<>>
\* entries are back in the cleared list although nothing was uploaded
C8_EntriesBack ==
    /\ ui = "ScriptMerge" /\ clearedSinceUpload /\ Len(mergeFiles) = 2
    /\ \A q \in requests \cup responses : q.kind # "upload"

RECURSIVE SumSeq(_)
SumSeq(q) == IF q = <<>> THEN 0 ELSE Head(q) + SumSeq(Tail(q))
\* m is ceil(n / k), for integers n >= 1 and k >= 1
IsCeil(m, n, k) == m * k >= n /\ (m - 1) * k < n
\* the number of outputs and their sizes the split of n pages has to give
OutputsAsSpecified(count, mode, n, k, ranges) ==
    /\ mode = "individual" => count = n
    /\ mode = "ranges" =>
           /\ IsCeil(count, n, k)
           /\ count = Len(ChunkPlan(1, n, k))
           /\ SumSeq(PlanSizes(ChunkPlan(1, n, k))) = n
    /\ mode = "custom" => count = Len(ranges)

C10_InvalidChunkSizeRejected ==
    /\ ui = "PdfSplitter" =>
          ((splitStart.mode = "ranges"
               /\ ~ChunkSizeValid(ParseInt(OrDefault(splitStart.size, <<"2">>))))
            => ~isSplit)
    /\ (ui = "ScriptSplit" /\ splitResultShown) =>
          ~(splitResultFor.mode = "ranges" /\ splitResultFor.size.kind = "num"
              /\ ~ChunkSizeValid(splitResultFor.size))
\* the download is offered for a split started with chunk size 0, and taking it
\* never returns
C10_OfferedAndHung ==
    /\ ui = "PdfSplitter" /\ isSplit /\ hung
    /\ splitStart.mode = "ranges" /\ splitStart.size = <<"0">>

\* C11: in PdfSplitter, after any sequence of file uploads, addRange, updateRange
\* and removeRange, every custom range has 1 <= start <= end <= pageCount for
\* the current pageCount.
C11_RangesWithinDocument ==
    \A k \in 1..Len(customRanges) :
        /\ 1 <= customRanges[k].start
        /\ customRanges[k].start <= customRanges[k].end
        /\ customRanges[k].end <= pageCount
\* a range typed up to the last page, left behind by the upload of a shorter PDF
C11_RangeOutside ==
    /\ ui = "RangeEditing"
    /\ \E k \in 1..Len(customRanges) : customRanges[k].end > pageCount

C13_ExportOnlyAfterExtraction ==
    ui = "PdfToEditable" =>
       /\ EditorShown => textFor = "current"
       /\ convEvent.op = "download" => textFor = "current"
\* the editor shows a text for a file whose extraction was never started
C13_StaleExtraction ==
    /\ ui = "PdfToEditable"
    /\ EditorShown /\ textFor = "previous" /\ extractAwait = "none"

\* C14: in PdfToEditable an edit stores the string it is given as it is, the
\* empty string included, and the blob of a txt download holds the stored text of
\* that moment, of type text/plain.
C14_EditsAndTxtExportVerbatim ==
    ui = "PdfToEditable" =>
       /\ convEvent.op = "edit" => extractedText = convEvent.value
       /\ (convEvent.op = "download" /\ convEvent.format = "txt") =>
              /\ convEvent.blob.bytes = extractedText
              /\ convEvent.blob.type = "text/plain"
\* a txt download of a text that was edited
C14_Witness ==
    /\ ui = "PdfToEditable"
    /\ convEvent.op = "download" /\ convEvent.format = "txt"
    /\ extractedText = <<"a", Newline>>

\* lines put together again, with a line break between two of them
RECURSIVE JoinLines(_)
JoinLines(lines) ==
    IF Len(lines) = 1 THEN lines[1]
    ELSE lines[1] \o <<Newline>> \o JoinLines(Tail(lines))

\* C15: a docx export is a document whose body has one paragraph per line of
\* the stored text: for n lines exactly n paragraphs, none holding a line break,
\* the i-th being the i-th line.
C15_DocxParagraphPerLine ==
    (convEvent.op = "download" /\ convEvent.format = "docx") =>
        LET stored == IF ui = "PdfToEditable" THEN extractedText ELSE sessionText
            breaks == Cardinality({k \in 1..Len(stored) : stored[k] = Newline})
        IN  /\ "paragraphs" \in DOMAIN convEvent.blob
            /\ Len(convEvent.blob.paragraphs) = breaks + 1
            /\ \A i \in 1..Len(convEvent.blob.paragraphs) :
                   \A k \in 1..Len(convEvent.blob.paragraphs[i]) :
                       convEvent.blob.paragraphs[i][k] # Newline
            /\ JoinLines(convEvent.blob.paragraphs) = stored
\* PdfToEditable hands out the two lines of the stored text as the bytes of a
\* file of the docx type
C15_RawTextAsDocx ==
    /\ ui = "PdfToEditable"
    /\ convEvent.op = "download" /\ convEvent.format = "docx"
    /\ convEvent.blob.bytes = MockExtractedText

C19_UploadEndsWithOverlayHidden ==
    (ui = "ScriptMerge" /\ loading /\ \E q \in requests : q.kind = "upload")
        ~> ~loading
\* the overlay is shown and nothing is left that could hide it
C19_OverlayStuck ==
    /\ ui = "ScriptMerge"
    /\ loading /\ requests = {} /\ responses = {} /\ shownError = NoError

\* C18: in the script, when downloadConverted() requests the export, the text
\* stored in the session is the text the editor holds, also when the debounce
\* timer of the last edit is still running or an update-text request is on its
\* way.
C18_ExportDeliversEditorText ==
    (ui = "ScriptConvert" /\ convEvent.op = "download") =>
        /\ sessionText = textareaValue
        /\ convEvent.format = "txt" => convEvent.blob.bytes = convEvent.editor
\* a txt export made while the timer of the last edit was running: it holds the
\* text as extracted, the editor another one
C18_ExportBeforeTimer ==
    /\ ui = "ScriptConvert"
    /\ convEvent.op = "download" /\ convEvent.format = "txt"
    /\ textUpdateTimeout
    /\ convEvent.blob.bytes = ExtractedTextOf(sessionConvFile)
    /\ textareaValue = <<"a">>

\* C20: in the script, whenever merge-result is displayed, the merged output
\* the session holds is the concatenation of the files in the order the script
\* displays, for every interleaving of moveFile and mergePDFs with their
\* requests and responses.
C20_VisibleResultIsOfDisplayedOrder ==
    (/\ ui = "ScriptMerge"
     /\ mergeContainerShown /\ mergeResultShown
     /\ ~RenderThrows(mergeFiles)) =>
        sessionOutput = ConcatPages(mergeFiles)
\* nothing is in flight any more, merge-result is displayed, and the session
\* does not hold the merge of the displayed order: the process request was
\* handled before the reorder request, its response delivered after the
\* reorder's
C20_ResultOfOtherOrder ==
    /\ ui = "ScriptMerge"
    /\ mergeContainerShown /\ mergeResultShown /\ ~loading
    /\ requests = {} /\ responses = {}
    /\ mergeFiles = <<"b.pdf", "a.pdf">>
    /\ sessionFiles = mergeFiles
    /\ sessionOutput # ConcatPages(mergeFiles)

\* C17: a step of one tab (merge, split, convert) leaves what the other two
\* tabs hold unchanged, in the components and in the script with its part of
\* the session; only the loading overlay, the alert and the connection to the
\* server are shared.
C17_TabsIndependent ==
    [][/\ <<mergerVars, mergeSectionVars>>' # <<mergerVars, mergeSectionVars>> =>
              UNCHANGED <<splitVars, convertVars>>
       /\ splitVars' # splitVars =>
              UNCHANGED <<mergerVars, mergeSectionVars, convertVars>>
       /\ convertVars' # convertVars =>
              UNCHANGED <<mergerVars, mergeSectionVars, splitVars>>]_vars
\* every section held a file and has made one step: the merge list was
\* cleared, a custom range added, the editor typed into; what the steps of the
\* other sections had to leave alone is as it was
C17_Witness ==
    /\ ui = "ScriptTabs" /\ hStep = 3
    /\ mergeFiles = <<>> /\ ~mergeContainerShown
    /\ sessionFiles = <<"a.pdf", "b.pdf">>
    /\ Len(scriptRanges) = 2
    /\ splitFileInfo = [pages |-> 5] /\ splitContainerShown
    /\ textareaValue = <<"a">> /\ textUpdateTimeout
    /\ sessionText = ExtractedTextOf("a.pdf") /\ convertEditorShown

\* C21: updateRange(id, field, value) sets the named field of the range with
\* that id to value clamped into [1, pageCount] and leaves the other field,
\* the other ranges, their number and their order as they were; no range is
\* rejected, merged or moved for overlapping another or for start > end.
C21_UpdateRangeChangesOneField ==
    [][(ui = "RangeEditing" /\ hOrig' # <<>>) =>
          LET id == hOrig'[1]
              field == hOrig'[2]
              value == NumOrDefault(ParseInt(hOrig'[3]), Num(1)).v
              clamped == IF value < 1 THEN 1
                         ELSE IF value > pageCount THEN pageCount ELSE value
          IN  /\ Len(customRanges') = Len(customRanges)
              /\ \A k \in 1..Len(customRanges) :
                     /\ customRanges'[k].id = customRanges[k].id
                     /\ IF customRanges[k].id = id
                        THEN IF field = "start"
                             THEN /\ customRanges'[k].start = clamped
                                  /\ customRanges'[k].end = customRanges[k].end
                             ELSE /\ customRanges'[k].end = clamped
                                  /\ customRanges'[k].start = customRanges[k].start
                        ELSE customRanges'[k] = customRanges[k]]_vars
\* the start of the second of two ranges was set to 12, clamped to the page
\* count: the range now starts after its end and is kept, the first range is
\* as it was
C21_Witness ==
    /\ ui = "RangeEditing" /\ hStep = 2
    /\ Len(customRanges) = 2
    /\ hOrig = <<customRanges[2].id, "start", <<"1", "2">>>>
    /\ customRanges[2].start = pageCount
    /\ customRanges[2].end = 2
    /\ customRanges[1] = [id |-> 1, start |-> 1, end |-> 1]

\* C22: handleDownloadSplitFiles returns for every split mode and every value
\* of #rangeSize, and in individual and ranges mode it schedules at most
\* pageCount downloads.
C22_DownloadTerminates ==
    ui = "PdfSplitter" =>
        /\ ~hung
        /\ (downloadRan /\ splitMode \in {"individual", "ranges"}) =>
               Len(splitDownloads) <= pageCount
\* 0 is in #rangeSize when the download is taken: fileCount is Infinity and the
\* loop of handleDownloadSplitFiles never ends
C22_LoopWithoutEnd ==
    /\ ui = "PdfSplitter" /\ hung
    /\ splitMode = "ranges" /\ rangeSizeValue = <<"0">>
    /\ FileCount(splitMode, pageCount, rangeSizeValue, customRanges) = Infinity

\* C23: in PdfSplitter the download is offered (isSplit) only after a
\* handleSplit that was started for the file now selected has completed, also
\* when a new PDF is selected while a split is in progress.
C23_SplitIsOfSelectedFile ==
    (ui = "PdfSplitter" /\ isSplit) => splitStart.current
\* b.pdf was selected during the split of a.pdf: the download of b.pdf's
\* parts is offered and delivers them, and no handleSplit was started for b.pdf
C23_SplitOfPreviousFile ==
    /\ ui = "PdfSplitter"
    /\ isSplit /\ ~isSplitting /\ splitAwait = 0
    /\ pdfFile = "b.pdf" /\ splitStart.mode = "individual" /\ ~splitStart.current
    /\ downloadRan /\ Len(splitDownloads) = pageCount

\* C24: in PdfSplitter a download after a split delivers as many files as the
\* mode and the chunk size that were in effect when the split was started
\* give for the document (the splits started in individual or ranges mode for
\* the file still selected are looked at); a later change of the mode or of
\* the chunk size invalidates the split or does not change the download.
C24_DownloadIsOfStartedSplit ==
    (/\ ui = "PdfSplitter"
     /\ downloadRan
     /\ splitStart.current /\ splitStart.mode \in {"individual", "ranges"}) =>
        Len(splitDownloads) =
            LoopRuns(FileCount(splitStart.mode, pageCount, splitStart.size, <<>>))
\* the split was started in individual mode; the mode was then set to custom
\* with its one range, the download stayed on offer and delivered one file
C24_DownloadOfLaterMode ==
    /\ ui = "PdfSplitter"
    /\ downloadRan /\ isSplit
    /\ splitStart.current /\ splitStart.mode = "individual"
    /\ splitMode = "custom"
    /\ Len(splitDownloads) = 1 /\ pageCount > 1

\* C25: the list of custom ranges is never empty, in PdfSplitter and in the
\* script: it is the single range (1,1) until a file is there, and add, update
\* and remove leave at least one range, a remove of the only range being a
\* no-op.
C25_RangesNeverEmpty ==
    /\ Len(customRanges) >= 1
    /\ Len(scriptRanges) >= 1
    /\ pdfFile = NoFile => customRanges = <<[id |-> 1, start |-> 1, end |-> 1]>>
    /\ splitFileInfo = NoInfo => scriptRanges = <<[start |-> Num(1), end |-> Num(1)]>>
\* a range editing run of PdfSplitter after addRange and removeRange of the
\* first range: the one range left is the added one
C25_Witness ==
    /\ ui = "RangeEditing" /\ hStep = 2 /\ hOrig = <<>>
    /\ Len(customRanges) = 1
    /\ customRanges[1] = [id |-> 2, start |-> 2, end |-> 2]

\* C26: in PdfToEditable, while a file is selected, the extract action or the
\* editor with the download is offered; in particular the editor stays after
\* an edit that makes the text empty.
C26_ExtractOrEditorOffered ==
    (ui = "PdfToEditable" /\ convFile # NoFile) => (ExtractShown \/ EditorShown)
\* the text was edited to the empty string after the extraction: a file is
\* selected, and neither the extract section nor the editor is rendered
C26_NothingOffered ==
    /\ ui = "PdfToEditable"
    /\ convFile # NoFile /\ isProcessed /\ ~isProcessing
    /\ extractedText = <<>>
    /\ ~ExtractShown /\ ~EditorShown

\* C27: in the React App a switch of the active tab leaves the state of every
\* tab as it was (merge list, order and merged flag; split file, mode, ranges
\* and split flag; convert file, text and export format), so that a tab
\* switched away from and back to is found as it was left.
C27_TabSwitchKeepsState ==
    [][ui' # ui =>
          UNCHANGED <<pdfFiles, isMerged, pdfFile, splitMode, customRanges, isSplit,
                      convFile, extractedText, exportFormat>>]_vars
\* the split tab right after a switch away from a merge tab that held files:
\* PdfMerger is unmounted, and a switch back mounts it with an empty list
C27_StateDiscarded ==
    /\ ui = "PdfSplitter" /\ hStep = 1
    /\ pdfFiles = <<>> /\ ~isMerged
    /\ pdfFile = NoFile /\ convFile = NoFile

\* C28: in the script, once every /merge/reorder request of a run of moveFile
\* clicks is answered, mergeFiles is the list the run started with, the
\* requested reorders applied in the order they were requested, whatever the
\* order of the responses.
C28_ListFollowsRequestOrder ==
    (ui = "ReorderRun" /\ requests = {} /\ responses = {}) => mergeFiles = hOrig
\* two clicks, the second before the first was answered, both answered since:
\* the page and the session hold the files in different orders, the session's
\* being the order of the requests
C28_ListsApart ==
    /\ ui = "ReorderRun" /\ hStep = 2
    /\ requests = {} /\ responses = {}
    /\ sessionFiles = hOrig
    /\ mergeFiles # sessionFiles
    /\ ~RenderThrows(mergeFiles)

\* C29: in PdfMerger, during a drag, a handled hover leaves the dragged file
\* at the index of the item hovered, which item.index then holds, and the
\* other files in their order; a step that leaves item.index as it is, a hover
\* over the own position among them, leaves the list as it is.
C29_HoverTracksDraggedFile ==
    [][(ui = "PdfMerger" /\ dragItem # NoDrag /\ dragItem' # NoDrag) =>
          IF dragItem' # dragItem
          THEN /\ Len(pdfFiles') = Len(pdfFiles)
               /\ dragItem < Len(pdfFiles) /\ dragItem' < Len(pdfFiles)
               /\ pdfFiles'[dragItem' + 1] = pdfFiles[dragItem + 1]
               /\ SpliceRemove1(pdfFiles', dragItem') = SpliceRemove1(pdfFiles, dragItem)
          ELSE UNCHANGED pdfFiles]_vars
\* the first of three files was dragged over the last: it is the last now,
\* item.index is 2, and the two other files are in their order
C29_Witness ==
    /\ ui = "PdfMerger"
    /\ dragItem = 2 /\ Len(pdfFiles) = 3
    /\ pdfFiles[1].id = 2 /\ pdfFiles[2].id = 3 /\ pdfFiles[3].id = 1

\* C30: in uploadFilesWithProgress, the percentage shown never decreases while
\* the bar of an upload is shown, it is 0 when the upload starts, the simulated
\* part is at most 90, 100 is shown only after the load event, and the
\* simulation makes no update once the request has ended.
C30_PercentNeverDecreases ==
    [][ui = "UploadProgress" =>
          /\ (progressDisplay = "block" /\ progressDisplay' = "block") =>
                 progressPercent' >= progressPercent
          /\ (xhrState # "sending" /\ xhrState' = "sending") => progressPercent' = 0
          /\ simulatedProgress' <= 90
          /\ (progressDisplay' = "block" /\ progressPercent' = 100) => xhrState' = "done"
          /\ (xhrState = "done" /\ xhrState' = "done") =>
                 UNCHANGED <<simulatedProgress, progressPercent>>]_vars
\* the bar of an upload on its way shows less than a progress event made it show
C30_PercentFellBack ==
    /\ ui = "UploadProgress"
    /\ progressDisplay = "block" /\ xhrState = "sending"
    /\ progressPercent < RoundPercent(uploadLoaded, uploadTotal)


====
